---------------------------- MODULE Spec2Model ----------------------------
(***************************************************************************)
(* A model of the mail-attachment agent: the attachment retriever          *)
(* (tools/gmail_downloader.py), the file analyzer's categorization memory  *)
(* (tools/file_analyzer.py), the directive processor                       *)
(* (tools/process_downloaded_data.py), and the processes that run them:    *)
(* the watchdog (watchdog.py), the agent (main.py, agent.py) and the tool  *)
(* subprocesses.                                                           *)
(*                                                                         *)
(* Each tool is a sequential script; it is modelled as a program counter   *)
(* and one action per step of the script.  Every tool has a specification  *)
(* of its own (SpecRetriever, SpecAnalyzer, SpecDirective); the variables  *)
(* of the other tools stay at their initial values.  SpecSupervisor is the *)
(* concurrent system of the watchdog, the agents it starts and their tool  *)
(* subprocesses, with a clock.                                             *)
(***************************************************************************)
EXTENDS Integers, Sequences, FiniteSets, TLC

(***************************************************************************)
(* Bounds of the model.                                                    *)
(***************************************************************************)
\* messages of the mailbox whose shape varies freely
MaxHead == 1
\* messages that follow them, all of one shape
MaxTail == 10
\* runs of the retriever's main in one behaviour
MaxRuns == 2
\* provider or I/O errors injected in one behaviour
MaxErrors == 1
\* length of a short page of a message listing
ShortPage == 4
\* files in the download directory when the analyzer runs
MaxAFiles == 2
\* runs of the analyzer's main in one behaviour
MaxARuns == 2
\* edits a human makes to the memory document in one behaviour
MaxEdits == 1
\* entries of the memory the directive processor loads
MaxEntries == 2
\* files in the download directory when the directive processor runs
MaxDFiles == 2
\* runs of the directive processor's main in one behaviour
MaxDRuns == 2
\* how far the clock goes, in watchdog check intervals
MaxTicks == 12
\* agent processes the watchdog starts in one behaviour
MaxAgents == 3
\* calls of write_result in one behaviour
MaxCalls == 3

(***************************************************************************)
(* Program constants.                                                      *)
(***************************************************************************)
\* gmail_downloader.py: "if msgs_examined >= 10"
MaxExamined == 10

\* constants.py: MAX_PAGE_SIZE
MAX_PAGE_SIZE == 100

\* constants.py: CHECK_INTERVAL, seconds between two checks of the watchdog
CHECK_INTERVAL == 30

\* constants.py: MAX_HEARTBEAT_AGE, seconds before a heartbeat is stale
MAX_HEARTBEAT_AGE == 120

\* main.py: HEARTBEAT_INTERVAL, seconds between two heartbeat writes
HEARTBEAT_INTERVAL == 60

\* constants.py: LOOP_DELAY, seconds between two cycles of the agent loop
LOOP_DELAY == 300

VARIABLES
    \* ---- retriever (tools/gmail_downloader.py) ----
    mailbox,        \* the provider's messages matching the query, in list order
    pageLen,        \* how many messages the provider puts on one page
    historyFile,    \* HISTORY_FILE on disk
    resultsFile,    \* GMAIL_RESULTS_FILE on disk
    downloads,      \* DOWNLOAD_DIR: path -> bytes
    pc,             \* where main is
    history,        \* main's history dict
    page_token,     \* download_attachments: page_token (0 is None)
    pageEnd,        \* index in mailbox of the last message of the current page
    pos,            \* index in mailbox of the next message of the for loop
    partIdx,        \* index of the next part of the message being processed
    msgs_examined,  \* download_attachments: msgs_examined
    new_files,      \* download_attachments: new_files
    runs,           \* number of runs of main started
    errs,           \* number of errors injected
    exitKind,       \* how the last run of main ended
    \* ---- history variables of the retriever ----
    prevExit,       \* exitKind of the run before the current one
    startHist,      \* what load_history returned in the current run
    writes,         \* every write to DOWNLOAD_DIR: <<path, bytes, run, message>>
    failedAt,       \* index of the message a provider error hit in this run, or 0
    finished,       \* ids of the messages whose processing a run finished
    \* ---- file analyzer (tools/file_analyzer.py) ----
    aFiles,         \* names of the files in FILE_ANALYZER_DOWNLOADS_DIR
    corrupt,        \* the names among them that PyMuPDF cannot open
    blank,          \* the names among them whose text is empty
    ctxFile,        \* FILE_ANALYZER_CONTEXT, the retriever's results document
    memFile,        \* FILE_ANALYZER_MEMORY_FILE on disk
    unhFile,        \* FILE_ANALYZER_UNHANDLED_FILE on disk
    analysis,       \* stems that have a file in FILE_ANALYZER_ANALYSIS_DIR
    memory,         \* the module's global "memory"
    unhandled,      \* the module's global "unhandled"
    context,        \* the module's global "context"
    todo,           \* files the glob of run() has still to yield
    pcA,            \* where the analyzer's main is
    aRuns,          \* number of runs of the analyzer started
    aExit,          \* how the last run of the analyzer ended
    aClock,         \* time.time(), counted in calls
    \* ---- history variables of the analyzer ----
    edits,          \* number of edits a human made to the memory document
    humanEdits,     \* key -> the notes and category a human last wrote
    lastUpd,        \* the arguments of the last update_memory call
    \* ---- directive processor (tools/process_downloaded_data.py) ----
    dMemory,        \* the document in MEMORY_FILE
    dDownloads,     \* names of the files in AGENT_DOWNLOADS_DIR
    dArchive,       \* names of the files in AGENT_ARCHIVE_DIR
    pcD,            \* where the directive processor's main is
    keysLeft,       \* keys memory.items() has still to yield
    curKey,         \* process_memory_entries: key
    matched,        \* process_memory_entries: what is left of matched
    stats,          \* process_memory_entries: stats
    dRuns,          \* number of runs of the directive processor started
    \* ---- history variables of the directive processor ----
    dInit,          \* dDownloads when the current run started
    printCalls,     \* name -> invocations of the print tool in the current run
    printFailed,    \* an invocation of the print tool failed in the current run
    renameFailed,   \* a move into the archive failed in the current run
    \* ---- watchdog, agent and tool processes (watchdog.py, main.py, agent.py) ----
    now,            \* time.time(), in seconds
    hbFile,         \* the heartbeat file: {} when absent, else {timestamp}
    wdPc,           \* where the watchdog's loop is
    wdWake,         \* when the watchdog's time.sleep returns
    last_ts,        \* run_watchdog: last_ts ({} is None)
    agent_process,  \* run_watchdog: agent_process (0 is None, else a pid)
    started,        \* number of agent processes started so far
    agentPc,        \* pid -> where that agent process is
    toolIdx,        \* pid -> index in AGENT_MODULES of the tool it waits for
    hbWake,         \* pid -> when the time.sleep of its heartbeat thread returns
    loopWake,       \* pid -> when the time.sleep of its agent_loop returns
    tools,          \* the tool subprocesses that are running
    \* ---- history variables of the processes ----
    terminated,     \* pids the watchdog terminated
    lastRc          \* pid -> what its last run_tool call returned

rvars == <<mailbox, pageLen, historyFile, resultsFile, downloads, pc, history,
           page_token, pageEnd, pos, partIdx, msgs_examined, new_files, runs,
           errs, exitKind, prevExit, startHist, writes, failedAt,
           finished>>

avars == <<aFiles, corrupt, blank, ctxFile, memFile, unhFile, analysis, memory,
           unhandled, context, todo, pcA, aRuns, aExit, aClock, edits,
           humanEdits, lastUpd>>

dvars == <<dMemory, dDownloads, dArchive, pcD, keysLeft, curKey, matched,
           stats, dRuns, dInit, printCalls, printFailed, renameFailed>>

svars == <<now, hbFile, wdPc, wdWake, last_ts, agent_process, started,
           agentPc, toolIdx, hbWake, loopWake, tools, terminated, lastRc>>

vars == <<rvars, avars, dvars, svars>>

(***************************************************************************)
(* Helpers.                                                                *)
(***************************************************************************)
Range(s) == {s[i] : i \in DOMAIN s}

Min(a, b) == IF a < b THEN a ELSE b

\* list(a_set): the elements of a set in some order
RECURSIVE SetToSeq(_)
SetToSeq(S) ==
    IF S = {} THEN <<>>
    ELSE LET x == CHOOSE y \in S : TRUE
         IN  <<x>> \o SetToSeq(S \ {x})

(***************************************************************************)
(* Strings whose characters matter (file names, suffixes, notes) are       *)
(* sequences of one-character strings.                                     *)
(***************************************************************************)
Whitespace == {" ", "\t", "\n"}

\* str.lower(), on the letters the model uses in upper case
LowerChar(c) ==
    CASE c = "P" -> "p" [] c = "R" -> "r" [] c = "I" -> "i" [] c = "N" -> "n"
      [] c = "T" -> "t" [] c = "X" -> "x" [] c = "D" -> "d" [] c = "F" -> "f"
      [] OTHER -> c

Lower(str) == [i \in DOMAIN str |-> LowerChar(str[i])]

\* str.strip()
RECURSIVE LStrip(_)
LStrip(str) ==
    IF str # <<>> /\ Head(str) \in Whitespace THEN LStrip(Tail(str)) ELSE str

RECURSIVE RStrip(_)
RStrip(str) ==
    IF str # <<>> /\ str[Len(str)] \in Whitespace
    THEN RStrip(SubSeq(str, 1, Len(str) - 1))
    ELSE str

Strip(str) == RStrip(LStrip(str))

\* str.rfind("."), 1-based, 0 when there is no dot
LastDot(name) ==
    IF \E i \in DOMAIN name : name[i] = "."
    THEN CHOOSE i \in DOMAIN name :
            name[i] = "." /\ \A j \in DOMAIN name : name[j] = "." => j <= i
    ELSE 0

\* pathlib: PurePath.suffix and PurePath.stem
PathSuffix(name) ==
    IF 1 < LastDot(name) /\ LastDot(name) < Len(name)
    THEN SubSeq(name, LastDot(name), Len(name))
    ELSE <<>>

PathStem(name) ==
    IF 1 < LastDot(name) /\ LastDot(name) < Len(name)
    THEN SubSeq(name, 1, LastDot(name) - 1)
    ELSE name

EndsWith(name, suffix) ==
    /\ Len(suffix) <= Len(name)
    /\ SubSeq(name, Len(name) - Len(suffix) + 1, Len(name)) = suffix

\* the strings of the model
NotesPrint == <<"p", "r", "i", "n", "t">>
NotesPadded == <<" ", "P", "r", "i", "n", "t", "\n">>
NotesIgnore == <<"i", "g", "n", "o", "r", "e">>
NotesBlank == <<" ">>
DotTxt == <<".", "t", "x", "t">>
DotPdf == <<".", "p", "d", "f">>
DotZip == <<".", "z", "i", "p">>

(***************************************************************************)
(* The mailbox.  A part of a message carries a filename ("" when it has    *)
(* none), possibly an attachmentId, and the bytes the attachment call      *)
(* returns for it.                                                         *)
(***************************************************************************)
Att(name, data) == [filename |-> name, hasAttachmentId |-> TRUE, data |-> data]
InlinePart == [filename |-> "", hasAttachmentId |-> FALSE, data |-> 0]
NamedNoId == [filename |-> "a.pdf", hasAttachmentId |-> FALSE, data |-> 0]

FullHeaders == {[name |-> "Subject", value |-> "invoice"],
                [name |-> "From", value |-> "alice"]}

\* the shapes a message takes: headers and parts
Shapes ==
    { [hdrs |-> FullHeaders, parts |-> <<>>],
      [hdrs |-> {},          parts |-> <<InlinePart, NamedNoId>>],
      [hdrs |-> FullHeaders, parts |-> <<Att("a.pdf", 1)>>],
      [hdrs |-> FullHeaders, parts |-> <<Att("a.pdf", 2)>>],
      [hdrs |-> {},          parts |-> <<Att("b.pdf", 1)>>],
      [hdrs |-> FullHeaders, parts |-> <<Att("a.pdf", 1), Att("b.pdf", 1)>>] }

TailShapes ==
    { [hdrs |-> FullHeaders, parts |-> <<Att("a.pdf", 1)>>],
      [hdrs |-> FullHeaders, parts |-> <<Att("c.pdf", 3)>>] }

Msg(i, shape) == [id |-> i, hdrs |-> shape.hdrs, parts |-> shape.parts]

\* how many messages follow the head: none, one, a page of them (with a head,
\* one more than a page), and enough to pass the cap of a run
TailLengths == {0, 1, ShortPage, MaxTail}

Mailboxes ==
    { [i \in 1..(Len(h) + k) |->
          Msg(i, IF i <= Len(h) THEN h[i] ELSE t)] :
        h \in UNION {[1..n -> Shapes] : n \in 0..MaxHead},
        k \in TailLengths,
        t \in TailShapes }

(***************************************************************************)
(* Documents on disk.                                                      *)
(***************************************************************************)
AbsentHistory == [kind |-> "absent", message_ids |-> <<>>, attachments |-> <<>>]
MalformedHistory == [kind |-> "malformed", message_ids |-> <<>>, attachments |-> <<>>]

EmptyHistory == [message_ids |-> {}, attachments |-> {}]

AbsentResults == [kind |-> "absent", runs |-> <<>>]

(***************************************************************************)
(* The analyzer's inputs and documents.                                    *)
(***************************************************************************)
\* the files the download directory can hold: a.txt, b.txt, A.TXT, c.pdf,
\* d.zip and "notes", a name without a dot
FileATxt == <<"a">> \o DotTxt
FileBTxt == <<"b">> \o DotTxt
FileUpper == <<"A", ".", "T", "X", "T">>
FileCPdf == <<"c">> \o DotPdf
FileDZip == <<"d">> \o DotZip
FileNoDot == <<"n", "o", "t", "e", "s">>

AnalyzerFiles == {FileATxt, FileBTxt, FileUpper, FileCPdf, FileDZip, FileNoDot}

\* one record of a run's "downloads" list in the results document
Download(name, sender) ==
    [filename |-> name, subject |-> "invoice", sender |-> sender]

AbsentContext == [kind |-> "absent", downloads |-> <<>>]
ContextDocs ==
    { AbsentContext,
      [kind |-> "object",
       downloads |-> <<Download(FileATxt, "alice"), Download(FileBTxt, "bob"),
                       Download(FileUpper, "alice"), Download(FileDZip, "bob")>>] }

\* f"SENDER::{sender}::{suffix}"
SenderKey(sender, suffix) == <<"SENDER", sender, suffix>>

\* the keys the analyzer's inputs give rise to
MemoryKeys ==
    {SenderKey(sender, suffix) :
        sender \in {"alice", "bob", "(unknown)"},
        suffix \in {DotTxt, DotPdf, DotZip}}

\* the entry process_file hands to update_memory (lines 284-287)
NewEntry(sender, suffix, summary, structured) ==
    [source |-> sender, filetype |-> suffix, summary |-> summary,
     contains_structured_data |-> structured,
     category |-> "(uncategorized)", notes |-> <<>>]

NoDict == <<>>

AbsentDoc == [kind |-> "absent", data |-> <<>>]
MalformedDoc == [kind |-> "malformed", data |-> <<>>]
JsonDoc(data) == [kind |-> "json", data |-> data]

\* a memory document a human annotated: alice's .txt files are to be printed
AnnotatedMemory ==
    [k \in {SenderKey("alice", DotTxt)} |->
        [NewEntry("alice", DotTxt, "old summary", TRUE) EXCEPT
            !.category = "bills", !.notes = NotesPrint]]

\* a memory document as an earlier analyzer run left it
FreshMemory ==
    [k \in {SenderKey("alice", DotTxt)} |->
        NewEntry("alice", DotTxt, "old summary", TRUE)]

\* a memory document in which a human handled bob's .zip files and left
\* only white space in the notes of bob's .txt files
TriagedMemory ==
    [k \in {SenderKey("bob", DotZip), SenderKey("bob", DotTxt)} |->
        [NewEntry("bob", k[3], "old summary", FALSE) EXCEPT
            !.notes = IF k[3] = DotZip THEN NotesPrint ELSE NotesBlank]]

MemoryDocs ==
    {AbsentDoc, MalformedDoc, JsonDoc(NoDict), JsonDoc(AnnotatedMemory),
     JsonDoc(FreshMemory), JsonDoc(TriagedMemory)}

\* what a human wrote in a memory document: its entries with notes
AnnotationsOf(doc) ==
    [k \in {k \in DOMAIN doc.data : doc.data[k].notes # <<>>} |->
        [notes |-> doc.data[k].notes, category |-> doc.data[k].category]]

NoUpdate == [called |-> FALSE, key |-> <<>>, entry |-> <<>>]

\* the analyzer has not run and will not
AnalyzerQuiet ==
    /\ aFiles = {}
    /\ corrupt = {}
    /\ blank = {}
    /\ ctxFile = AbsentContext
    /\ memFile = AbsentDoc
    /\ unhFile = AbsentDoc
    /\ analysis = {}
    /\ memory = NoDict
    /\ unhandled = <<>>
    /\ context = NoDict
    /\ todo = {}
    /\ pcA = "idle"
    /\ aRuns = 0
    /\ aExit = "none"
    /\ aClock = 0
    /\ edits = 0
    /\ humanEdits = NoDict
    /\ lastUpd = NoUpdate

(***************************************************************************)
(* What the directive processor works on: the memory document the analyzer *)
(* wrote and a human annotated, and the files of the download directory.   *)
(***************************************************************************)
FileRPdf == <<"r">> \o DotPdf
FileSPdf == <<"s">> \o DotPdf
FileTTxt == <<"t">> \o DotTxt
DirectiveFiles == {FileRPdf, FileSPdf, FileTTxt}

\* f"MSG::{sender}", the key file_analyzer.process_message writes
MsgKey(sender) == <<"MSG", sender>>

DirectiveKeys ==
    {SenderKey("alice", DotPdf), SenderKey("bob", DotPdf),
     SenderKey("alice", DotTxt), MsgKey("carol")}

DirectiveNotes == {<<>>, NotesPrint, NotesPadded, NotesIgnore}

\* the entries a key can have: the analyzer's process_file writes "filetype",
\* its process_message does not; "notes" is what a human made of it
EntriesOf(k) ==
    IF k[1] = "SENDER"
    THEN {[source |-> k[2], filetype |-> k[3], notes |-> n] : n \in DirectiveNotes}
    ELSE {[source |-> k[2], subject |-> "hello", notes |-> n] : n \in DirectiveNotes}

DirectiveMemories ==
    UNION {{m \in [K -> UNION {EntriesOf(k) : k \in K}] :
               \A k \in K : m[k] \in EntriesOf(k)} :
           K \in {K \in SUBSET DirectiveKeys : Cardinality(K) <= MaxEntries}}

NoCalls == [f \in DirectiveFiles |-> 0]

\* process_memory_entries, lines 102-110
NewStats(memory_) ==
    [total_entries |-> Cardinality(DOMAIN memory_), to_print_entries |-> 0,
     skipped_entries |-> 0, files_found |-> 0, files_printed |-> 0,
     archived |-> 0, errors |-> 0]

\* the directive processor before its first run
DirectiveStart ==
    /\ dArchive = {}
    /\ pcD = "idle"
    /\ keysLeft = {}
    /\ curKey = <<>>
    /\ matched = {}
    /\ stats = NewStats(NoDict)
    /\ dRuns = 0
    /\ dInit = {}
    /\ printCalls = NoCalls
    /\ printFailed = FALSE
    /\ renameFailed = FALSE

\* the directive processor has not run and will not
DirectiveQuiet ==
    /\ dMemory = NoDict
    /\ dDownloads = {}
    /\ DirectiveStart

(***************************************************************************)
(* The processes: what the watchdog starts.                                *)
(***************************************************************************)
\* constants.py: AGENT_MODULES, the modules a cycle of agent_loop runs
AGENT_MODULES ==
    <<"tools.gmail_downloader", "tools.file_analyzer",
      "tools.process_downloaded_data">>

\* the pids of the agent processes, in the order they are started
Pids == 1..MaxAgents

\* a subprocess.run child of agent `p` running AGENT_MODULES[i]
Tool(p, i) == [owner |-> p, module |-> i]

\* the exit statuses of a tool subprocess: success and failure
ExitStatuses == {0, 1}

\* a timestamp a previous session left, stale when the watchdog starts
StaleTimestamp == 0 - MAX_HEARTBEAT_AGE - CHECK_INTERVAL

\* a timestamp a previous session left a moment ago
RecentTimestamp == 0 - CHECK_INTERVAL

\* run_watchdog before its loop: no agent_process, no agent, no tool
SupervisorStart ==
    /\ now = 0
    /\ wdPc = "sleep"
    /\ wdWake = 0
    /\ last_ts = {}
    /\ agent_process = 0
    /\ started = 0
    /\ agentPc = [p \in Pids |-> "none"]
    /\ toolIdx = [p \in Pids |-> 0]
    /\ hbWake = [p \in Pids |-> 0]
    /\ loopWake = [p \in Pids |-> 0]
    /\ tools = {}
    /\ terminated = {}
    /\ lastRc = [p \in Pids |-> "none"]

\* no watchdog and no agent is running
SupervisorQuiet ==
    /\ hbFile = {}
    /\ SupervisorStart

(***************************************************************************)
(* gmail_downloader.py, the pure parts.                                    *)
(***************************************************************************)
\* hash_bytes: the SHA-256 digest of the bytes (distinct bytes, distinct digests)
hash_bytes(data) == <<"sha256", data>>

\* a storage name made of the original name alone
FILENAME_FORMAT_name_only(hash, original_name) == <<"", "", original_name>>

\* FILENAME_FORMAT.format(hash=..., original_name=...): "{hash}_{original_name}"
FILENAME_FORMAT(hash, original_name) == <<hash, "_", original_name>>

\* a key scoped to the message, as "{msg_id}:{hash}"
HistoryKeyPerMessage(msg_id, file_hash) == <<msg_id, file_hash>>

\* the key an attachment is recorded under in history["attachments"]
\* (lines 242 and 251: the bare hash, whatever the message)
HistoryKey(msg_id, file_hash) == file_hash

\* load_history reads the document; json.load raises on a malformed one
LoadRaises(doc) == doc.kind = "malformed"

\* a load that never reads the document
load_history_ignores_file(doc) == EmptyHistory

load_history(doc) ==
    IF doc.kind = "absent" THEN EmptyHistory
    ELSE [message_ids |-> Range(doc.message_ids),
          attachments |-> Range(doc.attachments)]

\* a save that forgets the attachment hashes
save_history_ids_only(h) ==
    [kind |-> "json",
     message_ids |-> SetToSeq(h.message_ids),
     attachments |-> <<>>]

save_history(h) ==
    [kind |-> "json",
     message_ids |-> SetToSeq(h.message_ids),
     attachments |-> SetToSeq(h.attachments)]

\* next(h["value"] for h in hdrs if h["name"] == name), default
Header(msg, name, default) ==
    IF \E h \in msg.hdrs : h.name = name
    THEN (CHOOSE h \in msg.hdrs : h.name = name).value
    ELSE default

\* "if not filename or 'attachmentId' not in body: continue"
IsAttachmentPart(part) == part.filename # "" /\ part.hasAttachmentId

\* a write_result that does not load the document
write_result_starts_fresh(doc, timestamp, downloaded_info) ==
    [kind |-> "object",
     runs |-> [t \in {timestamp} |->
                  [tool |-> "GmailDownloader",
                   new_attachments |-> Len(downloaded_info),
                   downloads |-> downloaded_info]]]

\* write_result: load the runs (or start fresh), key this run, write back
write_result(doc, timestamp, downloaded_info) ==
    LET old == IF doc.kind = "object" THEN doc.runs ELSE <<>>
        result_data == [tool |-> "GmailDownloader",
                        new_attachments |-> Len(downloaded_info),
                        downloads |-> downloaded_info]
    IN  [kind |-> "object",
         runs |-> [t \in (DOMAIN old) \cup {timestamp} |->
                      IF t = timestamp THEN result_data ELSE old[t]]]

(***************************************************************************)
(* The retriever: main and download_attachments, step by step.             *)
(***************************************************************************)
RetrieverStart ==
    /\ resultsFile = AbsentResults
    /\ downloads = <<>>
    /\ pc = "idle"
    /\ history = EmptyHistory
    /\ page_token = 0
    /\ pageEnd = 0
    /\ pos = 1
    /\ partIdx = 1
    /\ msgs_examined = 0
    /\ new_files = <<>>
    /\ runs = 0
    /\ errs = 0
    /\ exitKind = "none"
    /\ prevExit = "none"
    /\ startHist = EmptyHistory
    /\ writes = <<>>
    /\ failedAt = 0
    /\ finished = {}

InitRetriever ==
    /\ mailbox \in Mailboxes
    /\ pageLen \in {ShortPage, MAX_PAGE_SIZE}
    /\ historyFile \in {AbsentHistory, MalformedHistory}
    /\ RetrieverStart
    /\ AnalyzerQuiet
    /\ DirectiveQuiet
    /\ SupervisorQuiet

\* the retriever has not run and will not
RetrieverQuiet ==
    /\ mailbox = <<>>
    /\ pageLen = MAX_PAGE_SIZE
    /\ historyFile = AbsentHistory
    /\ RetrieverStart

\* variables no step of a run changes
Static == UNCHANGED <<mailbox, pageLen, avars, dvars, svars>>

\* main logs the FileNotFoundError of authenticate and goes on to the
\* download instead of returning
MainAuthIgnored ==
    /\ pc = "idle"
    /\ runs < MaxRuns
    /\ runs' = runs + 1
    /\ prevExit' = exitKind
    /\ exitKind' = "auth"
    /\ pc' = "list"
    /\ Static
    /\ UNCHANGED <<historyFile, resultsFile, downloads, history, page_token,
                   pageEnd, pos, partIdx, msgs_examined, new_files, errs,
                   startHist, writes, failedAt, finished>>

\* main, lines 336-341: get_credentials_file (lines 70-82) raises
\* FileNotFoundError when GMAIL_CREDENTIALS_PATH is unset or names no file,
\* authenticate lets it through, main logs it and returns
MainAuthFails ==
    /\ pc = "idle"
    /\ runs < MaxRuns
    /\ runs' = runs + 1
    /\ prevExit' = exitKind
    /\ exitKind' = "auth"
    /\ Static
    /\ UNCHANGED <<historyFile, resultsFile, downloads, pc, history, page_token,
                   pageEnd, pos, partIdx, msgs_examined, new_files, errs,
                   startHist, writes, failedAt, finished>>

\* main, line 345: load_history raises on a malformed document; nothing
\* catches it and main ends
MainLoadRaises ==
    /\ pc = "idle"
    /\ runs < MaxRuns
    /\ LoadRaises(historyFile)
    /\ runs' = runs + 1
    /\ prevExit' = exitKind
    /\ exitKind' = "load_raised"
    /\ Static
    /\ UNCHANGED <<historyFile, resultsFile, downloads, pc, history, page_token,
                   pageEnd, pos, partIdx, msgs_examined, new_files, errs,
                   startHist, writes, failedAt, finished>>

\* main, lines 336-349: authenticate, load_history, enter download_attachments
MainStart ==
    /\ pc = "idle"
    /\ runs < MaxRuns
    /\ ~LoadRaises(historyFile)
    /\ runs' = runs + 1
    /\ prevExit' = exitKind
    /\ exitKind' = "running"
    /\ history' = load_history(historyFile)
    /\ startHist' = load_history(historyFile)
    /\ page_token' = 0
    /\ pageEnd' = 0
    /\ pos' = 1
    /\ partIdx' = 1
    /\ msgs_examined' = 0
    /\ new_files' = <<>>
    /\ failedAt' = 0
    /\ pc' = "list"
    /\ Static
    /\ UNCHANGED <<historyFile, resultsFile, downloads, errs, writes, finished>>

\* the same without the finally: the history is not saved
RaiseWithoutSave(at) ==
    /\ errs < MaxErrors
    /\ errs' = errs + 1
    /\ failedAt' = at
    /\ exitKind' = "raised"
    /\ pc' = "idle"
    /\ Static
    /\ UNCHANGED <<historyFile, resultsFile, downloads, history, page_token,
                   pageEnd, pos, partIdx, msgs_examined, new_files, runs,
                   prevExit, startHist, writes, finished>>

\* an exception leaves download_attachments: main's except returns and its
\* finally saves the history (lines 353-359)
Raise(at) ==
    /\ errs < MaxErrors
    /\ errs' = errs + 1
    /\ failedAt' = at
    /\ historyFile' = save_history(history)
    /\ exitKind' = "raised"
    /\ pc' = "idle"
    /\ Static
    /\ UNCHANGED <<resultsFile, downloads, history, page_token, pageEnd, pos,
                   partIdx, msgs_examined, new_files, runs, prevExit, startHist,
                   writes, finished>>

\* lines 197-204: messages().list(pageToken=page_token).execute()
ListPage ==
    /\ pc = "list"
    /\ pos' = page_token + 1
    /\ pageEnd' = Min(page_token + pageLen, Len(mailbox))
    /\ pc' = "loop"
    /\ Static
    /\ UNCHANGED <<historyFile, resultsFile, downloads, history, page_token,
                   partIdx, msgs_examined, new_files, runs, errs, exitKind,
                   prevExit, startHist, writes, failedAt, finished>>

ListPageRaises ==
    /\ pc = "list"
    /\ Raise(0)

\* lines 262-265: the page is exhausted and there is a next page
NextPage ==
    /\ pc = "loop"
    /\ pos > pageEnd
    /\ pageEnd < Len(mailbox)
    /\ page_token' = pageEnd
    /\ pc' = "list"
    /\ Static
    /\ UNCHANGED <<historyFile, resultsFile, downloads, history, pageEnd, pos,
                   partIdx, msgs_examined, new_files, runs, errs, exitKind,
                   prevExit, startHist, writes, failedAt, finished>>

\* lines 208-210 and 264-268: download_attachments returns new_files
Return ==
    /\ pc = "loop"
    /\ \/ pos > pageEnd /\ pageEnd >= Len(mailbox)
       \/ pos <= pageEnd /\ msgs_examined >= MaxExamined
    /\ pc' = "returned"
    /\ Static
    /\ UNCHANGED <<historyFile, resultsFile, downloads, history, page_token,
                   pageEnd, pos, partIdx, msgs_examined, new_files, runs, errs,
                   exitKind, prevExit, startHist, writes, failedAt, finished>>

\* lines 212-217: the message is already in the history
SkipSeen ==
    /\ pc = "loop"
    /\ pos <= pageEnd
    /\ msgs_examined < MaxExamined
    /\ mailbox[pos].id \in history.message_ids
    /\ msgs_examined' = msgs_examined + 1
    /\ pos' = pos + 1
    /\ Static
    /\ UNCHANGED <<historyFile, resultsFile, downloads, pc, history, page_token,
                   pageEnd, partIdx, new_files, runs, errs, exitKind, prevExit,
                   startHist, writes, failedAt, finished>>

\* a fetch that marks the message seen before its parts are processed
GetMessageMarksSeen ==
    /\ pc = "loop"
    /\ pos <= pageEnd
    /\ msgs_examined < MaxExamined
    /\ mailbox[pos].id \notin history.message_ids
    /\ msgs_examined' = msgs_examined + 1
    /\ history' = [history EXCEPT !.message_ids = @ \cup {mailbox[pos].id}]
    /\ partIdx' = 1
    /\ pc' = "parts"
    /\ Static
    /\ UNCHANGED <<historyFile, resultsFile, downloads, page_token,
                   pageEnd, pos, new_files, runs, errs, exitKind, prevExit,
                   startHist, writes, failedAt, finished>>

\* lines 212-226: messages().get(id=msg_id).execute()
GetMessage ==
    /\ pc = "loop"
    /\ pos <= pageEnd
    /\ msgs_examined < MaxExamined
    /\ mailbox[pos].id \notin history.message_ids
    /\ msgs_examined' = msgs_examined + 1
    /\ partIdx' = 1
    /\ pc' = "parts"
    /\ Static
    /\ UNCHANGED <<historyFile, resultsFile, downloads, history, page_token,
                   pageEnd, pos, new_files, runs, errs, exitKind, prevExit,
                   startHist, writes, failedAt, finished>>

GetMessageRaises ==
    /\ pc = "loop"
    /\ pos <= pageEnd
    /\ msgs_examined < MaxExamined
    /\ mailbox[pos].id \notin history.message_ids
    /\ Raise(pos)

\* the part of the current message the inner loop is at
CurMsg == mailbox[pos]
CurPart == CurMsg.parts[partIdx]

\* lines 230-233: a part without a filename or without an attachmentId
SkipPart ==
    /\ pc = "parts"
    /\ partIdx <= Len(CurMsg.parts)
    /\ ~IsAttachmentPart(CurPart)
    /\ partIdx' = partIdx + 1
    /\ Static
    /\ UNCHANGED <<historyFile, resultsFile, downloads, pc, history, page_token,
                   pageEnd, pos, msgs_examined, new_files, runs, errs, exitKind,
                   prevExit, startHist, writes, failedAt, finished>>

\* lines 235-243: the attachment is fetched and its hash is in the history
DuplicatePart ==
    /\ pc = "parts"
    /\ partIdx <= Len(CurMsg.parts)
    /\ IsAttachmentPart(CurPart)
    /\ HistoryKey(CurMsg.id, hash_bytes(CurPart.data)) \in history.attachments
    /\ partIdx' = partIdx + 1
    /\ Static
    /\ UNCHANGED <<historyFile, resultsFile, downloads, pc, history, page_token,
                   pageEnd, pos, msgs_examined, new_files, runs, errs, exitKind,
                   prevExit, startHist, writes, failedAt, finished>>

\* the record appended to new_files (lines 252-257)
Downloaded(msg, part) ==
    [filename |-> FILENAME_FORMAT(hash_bytes(part.data), part.filename),
     subject |-> Header(msg, "Subject", "(no subject)"),
     sender |-> Header(msg, "From", "(no sender)"),
     original_name |-> part.filename]

\* path.write_bytes(data) (line 248)
WriteBytes(dir, path, data) ==
    [p \in (DOMAIN dir) \cup {path} |-> IF p = path THEN data ELSE dir[p]]

\* lines 235-257: the attachment is fetched, written and recorded
SavePart ==
    /\ pc = "parts"
    /\ partIdx <= Len(CurMsg.parts)
    /\ IsAttachmentPart(CurPart)
    /\ HistoryKey(CurMsg.id, hash_bytes(CurPart.data)) \notin history.attachments
    /\ LET file_hash == hash_bytes(CurPart.data)
           save_name == FILENAME_FORMAT(file_hash, CurPart.filename)
       IN  /\ downloads' = WriteBytes(downloads, save_name, CurPart.data)
           /\ writes' = Append(writes, <<save_name, CurPart.data, runs, pos>>)
           /\ history' = [history EXCEPT
                  !.attachments = @ \cup {HistoryKey(CurMsg.id, file_hash)}]
           /\ new_files' = Append(new_files, Downloaded(CurMsg, CurPart))
    /\ partIdx' = partIdx + 1
    /\ Static
    /\ UNCHANGED <<historyFile, resultsFile, pc, page_token, pageEnd, pos,
                   msgs_examined, runs, errs, exitKind, prevExit, startHist,
                   failedAt, finished>>

\* lines 235-238: attachments().get(...).execute() raises
FetchAttachmentRaises ==
    /\ pc = "parts"
    /\ partIdx <= Len(CurMsg.parts)
    /\ IsAttachmentPart(CurPart)
    /\ Raise(pos)

\* a message is marked seen only when one of its attachments was saved
MarkSeenIfDownloaded ==
    /\ pc = "parts"
    /\ partIdx > Len(CurMsg.parts)
    /\ history' = IF \E k \in DOMAIN writes : writes[k][3] = runs /\ writes[k][4] = pos
                  THEN [history EXCEPT !.message_ids = @ \cup {CurMsg.id}]
                  ELSE history
    /\ finished' = finished \cup {CurMsg.id}
    /\ pos' = pos + 1
    /\ pc' = "loop"
    /\ Static
    /\ UNCHANGED <<historyFile, resultsFile, downloads, page_token, pageEnd,
                   partIdx, msgs_examined, new_files, runs, errs, exitKind,
                   prevExit, startHist, writes, failedAt>>

\* line 260: history["message_ids"].add(msg_id)
MarkSeen ==
    /\ pc = "parts"
    /\ partIdx > Len(CurMsg.parts)
    /\ history' = [history EXCEPT !.message_ids = @ \cup {CurMsg.id}]
    /\ finished' = finished \cup {CurMsg.id}
    /\ pos' = pos + 1
    /\ pc' = "loop"
    /\ Static
    /\ UNCHANGED <<historyFile, resultsFile, downloads, page_token, pageEnd,
                   partIdx, msgs_examined, new_files, runs, errs, exitKind,
                   prevExit, startHist, writes, failedAt>>

\* main, lines 349-359: write_result, then the finally saves the history
MainFinish ==
    /\ pc = "returned"
    /\ resultsFile' = write_result(resultsFile, runs, new_files)
    /\ historyFile' = save_history(history)
    /\ exitKind' = "ok"
    /\ pc' = "idle"
    /\ Static
    /\ UNCHANGED <<downloads, history, page_token, pageEnd, pos, partIdx,
                   msgs_examined, new_files, runs, errs, prevExit, startHist,
                   writes, failedAt, finished>>

\* main, lines 351-359: write_result raises, the finally saves the history
MainWriteResultRaises ==
    /\ pc = "returned"
    /\ errs < MaxErrors
    /\ errs' = errs + 1
    /\ historyFile' = save_history(history)
    /\ exitKind' = "write_raised"
    /\ pc' = "idle"
    /\ Static
    /\ UNCHANGED <<resultsFile, downloads, history, page_token, pageEnd, pos,
                   partIdx, msgs_examined, new_files, runs, prevExit, startHist,
                   writes, failedAt, finished>>

NextRetriever ==
    \/ MainAuthFails
    \/ MainLoadRaises
    \/ MainStart
    \/ ListPage
    \/ ListPageRaises
    \/ NextPage
    \/ Return
    \/ SkipSeen
    \/ GetMessage
    \/ GetMessageRaises
    \/ SkipPart
    \/ DuplicatePart
    \/ SavePart
    \/ FetchAttachmentRaises
    \/ MarkSeen
    \/ MainFinish
    \/ MainWriteResultRaises

SpecRetriever == InitRetriever /\ [][NextRetriever]_vars

(***************************************************************************)
(* write_result on its own: the documents it can find and the lists it can *)
(* be given.                                                               *)
(***************************************************************************)
\* GMAIL_RESULTS_FILE holds text that is not JSON (json.load raises
\* JSONDecodeError, lines 295-304)
MalformedResults == [kind |-> "malformed", runs |-> <<>>]

\* GMAIL_RESULTS_FILE holds JSON that is not an object (lines 297-303)
ListResults == [kind |-> "list", runs |-> <<>>]

\* the lists download_attachments returns: none, one or two records
DownloadLists ==
    LET m == Msg(1, [hdrs |-> FullHeaders, parts |-> <<>>])
    IN  { <<>>,
          <<Downloaded(m, Att("a.pdf", 1))>>,
          <<Downloaded(m, Att("a.pdf", 1)), Downloaded(m, Att("b.pdf", 2))>> }

\* GMAIL_RESULTS_FILE as earlier runs left it: an object with one run, keyed
\* by a timestamp before those of the calls to come
EarlierResults ==
    [kind |-> "object",
     runs |-> [ts \in {0} |->
                  [tool |-> "GmailDownloader", new_attachments |-> 0,
                   downloads |-> <<>>]]]

ResultDocs == {AbsentResults, MalformedResults, ListResults, EarlierResults}

\* a document and a first list; runs counts the calls and is the clock of
\* datetime.utcnow()
InitWriteResult ==
    /\ resultsFile \in ResultDocs
    /\ new_files \in DownloadLists
    /\ mailbox = <<>>
    /\ pageLen = MAX_PAGE_SIZE
    /\ historyFile = AbsentHistory
    /\ downloads = <<>>
    /\ pc = "returned"
    /\ history = EmptyHistory
    /\ page_token = 0
    /\ pageEnd = 0
    /\ pos = 1
    /\ partIdx = 1
    /\ msgs_examined = 0
    /\ runs = 0
    /\ errs = 0
    /\ exitKind = "running"
    /\ prevExit = "none"
    /\ startHist = EmptyHistory
    /\ writes = <<>>
    /\ failedAt = 0
    /\ finished = {}
    /\ AnalyzerQuiet
    /\ DirectiveQuiet
    /\ SupervisorQuiet

\* write_result(downloaded_info), lines 271-319, at the next timestamp; the
\* following call gets any list
WriteResultCall ==
    /\ runs < MaxCalls
    /\ runs' = runs + 1
    /\ resultsFile' = write_result(resultsFile, runs + 1, new_files)
    /\ new_files' \in DownloadLists
    /\ Static
    /\ UNCHANGED <<historyFile, downloads, pc, history, page_token, pageEnd,
                   pos, partIdx, msgs_examined, errs, exitKind, prevExit,
                   startHist, writes, failedAt, finished>>

NextWriteResult == WriteResultCall

SpecWriteResult == InitWriteResult /\ [][NextWriteResult]_vars

(***************************************************************************)
(* file_analyzer.py, the pure parts.                                       *)
(***************************************************************************)
\* load_json(path, default): the default when the file is absent or unreadable
load_json(doc, default) == IF doc.kind = "json" THEN doc.data ELSE default

\* save_json(data, path)
save_json(data) == JsonDoc(data)

\* load_context: filename -> subject and sender; a later record of a name
\* replaces an earlier one
load_context(doc) ==
    IF doc.kind # "object" THEN NoDict
    ELSE LET items == doc.downloads
             LastOf(fn) ==
                 CHOOSE i \in DOMAIN items :
                     /\ items[i].filename = fn
                     /\ \A j \in DOMAIN items : items[j].filename = fn => j <= i
         IN  [fn \in {items[i].filename : i \in DOMAIN items} |->
                 [subject |-> items[LastOf(fn)].subject,
                  sender |-> items[LastOf(fn)].sender]]

\* context.get(name, {}).get(field, "(unknown)")
ContextOf(ctx, name, field) ==
    IF name \in DOMAIN ctx THEN ctx[name][field] ELSE "(unknown)"

\* the glob "*.*" of run(): names with a dot
GlobAnyDot(names) == {n \in names : \E i \in DOMAIN n : n[i] = "."}

\* extract_content, by the lower-cased suffix: "raise", "empty", "text",
\* "binary" or "unsupported"
extract_content(name, isCorrupt, isBlank) ==
    LET suffix == Lower(PathSuffix(name))
    IN  CASE suffix = DotPdf -> IF isCorrupt THEN "raise"
                                ELSE IF isBlank THEN "empty" ELSE "text"
          [] suffix = DotTxt -> IF isBlank THEN "empty" ELSE "text"
          [] suffix = DotZip -> "binary"
          [] OTHER -> "unsupported"

\* record_unhandled(file, suffix)
record_unhandled(unh, ctx, name, suffix, at) ==
    LET entry == [filename |-> name, filetype |-> suffix,
                  subject |-> ContextOf(ctx, name, "subject"),
                  sender |-> ContextOf(ctx, name, "sender"),
                  timestamp |-> at]
    IN  IF entry \in Range(unh) THEN unh ELSE Append(unh, entry)

\* an update that replaces the entry of a key already present
update_memory_overwrites(mem, key, entry) ==
    [k \in (DOMAIN mem) \cup {key} |-> IF k = key THEN entry ELSE mem[k]]

\* update_memory(key, entry): "if key not in memory: memory[key] = entry"
update_memory(mem, key, entry) ==
    IF key \in DOMAIN mem THEN mem
    ELSE [k \in (DOMAIN mem) \cup {key} |-> IF k = key THEN entry ELSE mem[k]]

\* a revisit of the unhandled entries that removes none
remaining_unhandled_keeps_all(unh, mem) == unh

\* main, lines 343-374: the unhandled entries whose key has no notes yet
remaining_unhandled(unh, mem) ==
    LET Keep(e) ==
            LET key == SenderKey(e.sender, e.filetype)
            IN  ~(key \in DOMAIN mem /\ Strip(mem[key].notes) # <<>>)
    IN  SelectSeq(unh, Keep)

(***************************************************************************)
(* The analyzer: main, run and process_file, step by step.                 *)
(***************************************************************************)
InitAnalyzer ==
    /\ aFiles \in {F \in SUBSET AnalyzerFiles : Cardinality(F) <= MaxAFiles}
    /\ corrupt \in SUBSET (aFiles \cap {FileCPdf})
    /\ blank \in SUBSET (aFiles \cap {FileBTxt})
    /\ ctxFile \in ContextDocs
    /\ memFile \in MemoryDocs
    /\ unhFile = (IF memFile.kind = "malformed" THEN MalformedDoc ELSE AbsentDoc)
    /\ analysis = {}
    /\ memory = NoDict
    /\ unhandled = <<>>
    /\ context = NoDict
    /\ todo = {}
    /\ pcA = "idle"
    /\ aRuns = 0
    /\ aExit = "none"
    /\ aClock = 0
    /\ edits = 0
    /\ humanEdits = AnnotationsOf(memFile)
    /\ lastUpd = NoUpdate
    /\ RetrieverQuiet
    /\ DirectiveQuiet
    /\ SupervisorQuiet

\* what no step of the analyzer changes
AStatic == UNCHANGED <<rvars, dvars, svars, aFiles, corrupt, blank, ctxFile>>

\* main, lines 330-339: load the three documents, enter run()
AnalyzerStart ==
    /\ pcA = "idle"
    /\ aRuns < MaxARuns
    /\ aRuns' = aRuns + 1
    /\ memory' = load_json(memFile, NoDict)
    /\ unhandled' = load_json(unhFile, <<>>)
    /\ context' = load_context(ctxFile)
    /\ todo' = GlobAnyDot(aFiles)
    /\ pcA' = "run"
    /\ aExit' = "running"
    /\ lastUpd' = NoUpdate
    /\ AStatic
    /\ UNCHANGED <<memFile, unhFile, analysis, aClock, edits, humanEdits>>

\* run, lines 314-316: the file has an analysis already
AlreadyAnalyzed(f) ==
    /\ pcA = "run"
    /\ f \in todo
    /\ PathStem(f) \in analysis
    /\ todo' = todo \ {f}
    /\ AStatic
    /\ UNCHANGED <<memFile, unhFile, analysis, memory, unhandled, context, pcA,
                   aRuns, aExit, aClock, edits, humanEdits, lastUpd>>

\* an exception leaves run() and main: main has no handler and no finally,
\* the process ends and nothing is saved
AnalyzerRaises ==
    /\ pcA' = "idle"
    /\ aExit' = "raised"
    /\ AStatic
    /\ UNCHANGED <<memFile, unhFile, analysis, memory, unhandled, context, aRuns,
                   aClock, edits, humanEdits, lastUpd>>

\* process_file, line 264: extract_pdf raises on a file PyMuPDF cannot open
ExtractRaises(f) ==
    /\ pcA = "run"
    /\ f \in todo
    /\ PathStem(f) \notin analysis
    /\ extract_content(f, f \in corrupt, f \in blank) = "raise"
    /\ todo' = todo \ {f}
    /\ AnalyzerRaises

\* process_file, lines 268-271: nothing was extracted
NoContent(f) ==
    /\ pcA = "run"
    /\ f \in todo
    /\ PathStem(f) \notin analysis
    /\ extract_content(f, f \in corrupt, f \in blank) = "empty"
    /\ unhandled' = record_unhandled(unhandled, context, f,
                                     Lower(PathSuffix(f)), aClock + 1)
    /\ aClock' = aClock + 1
    /\ todo' = todo \ {f}
    /\ AStatic
    /\ UNCHANGED <<memFile, unhFile, analysis, memory, context, pcA, aRuns,
                   aExit, edits, humanEdits, lastUpd>>

\* the unhandled list after extract_content(f): a binary or unsupported file
\* is recorded (lines 206-212)
AfterExtract(f) ==
    IF extract_content(f, f \in corrupt, f \in blank) \in {"binary", "unsupported"}
    THEN record_unhandled(unhandled, context, f, Lower(PathSuffix(f)), aClock + 1)
    ELSE unhandled

\* process_file, lines 264-287: extract, summarize, save the analysis and
\* update the memory; summarized says whether summarize_document answered
Analyze(f, summarized) ==
    /\ pcA = "run"
    /\ f \in todo
    /\ PathStem(f) \notin analysis
    /\ extract_content(f, f \in corrupt, f \in blank) \in
          {"text", "binary", "unsupported"}
    /\ LET kind == extract_content(f, f \in corrupt, f \in blank)
           sender == ContextOf(context, f, "sender")
           suffix == Lower(PathSuffix(f))
           summary == IF kind = "text" /\ summarized THEN "new summary" ELSE kind
           key == SenderKey(sender, suffix)
           entry == NewEntry(sender, suffix, summary, FALSE)
       IN  /\ memory' = update_memory(memory, key, entry)
           /\ lastUpd' = [called |-> TRUE, key |-> key, entry |-> entry]
    /\ unhandled' = AfterExtract(f)
    /\ aClock' = aClock + 1
    /\ analysis' = analysis \cup {PathStem(f)}
    /\ todo' = todo \ {f}
    /\ AStatic
    /\ UNCHANGED <<memFile, unhFile, context, pcA, aRuns, aExit, edits,
                   humanEdits>>

\* process_file, lines 275-285: summarize_document returns an object without
\* "summary"; the analysis is saved and analysis["summary"] raises KeyError
SummaryKeyError(f) ==
    /\ pcA = "run"
    /\ f \in todo
    /\ PathStem(f) \notin analysis
    /\ extract_content(f, f \in corrupt, f \in blank) = "text"
    /\ analysis' = analysis \cup {PathStem(f)}
    /\ todo' = todo \ {f}
    /\ pcA' = "idle"
    /\ aExit' = "raised"
    /\ AStatic
    /\ UNCHANGED <<memFile, unhFile, memory, unhandled, context, aRuns, aClock,
                   edits, humanEdits, lastUpd>>

\* main, lines 341-382: revisit the unhandled entries, save both documents
AnalyzerFinish ==
    /\ pcA = "run"
    /\ todo = {}
    /\ unhandled' = remaining_unhandled(unhandled, memory)
    /\ memFile' = save_json(memory)
    /\ unhFile' = save_json(remaining_unhandled(unhandled, memory))
    /\ pcA' = "idle"
    /\ aExit' = "ok"
    /\ AStatic
    /\ UNCHANGED <<analysis, memory, context, todo, aRuns, aClock, edits,
                   humanEdits, lastUpd>>

\* a human edits the memory document: notes and category of one entry
HumanEdit(k, n, c) ==
    /\ edits < MaxEdits
    /\ memFile.kind = "json"
    /\ k \in DOMAIN memFile.data
    /\ memFile.data[k].notes # n
    /\ edits' = edits + 1
    /\ memFile' = [memFile EXCEPT !.data[k].notes = n, !.data[k].category = c]
    /\ humanEdits' = [x \in (DOMAIN humanEdits) \cup {k} |->
                         IF x = k THEN [notes |-> n, category |-> c]
                         ELSE humanEdits[x]]
    /\ AStatic
    /\ UNCHANGED <<unhFile, analysis, memory, unhandled, context, todo, pcA,
                   aRuns, aExit, aClock, lastUpd>>

NextAnalyzer ==
    \/ AnalyzerStart
    \/ \E f \in AnalyzerFiles : AlreadyAnalyzed(f)
    \/ \E f \in AnalyzerFiles : ExtractRaises(f)
    \/ \E f \in AnalyzerFiles : NoContent(f)
    \/ \E f \in AnalyzerFiles, summarized \in BOOLEAN : Analyze(f, summarized)
    \/ \E f \in AnalyzerFiles : SummaryKeyError(f)
    \/ AnalyzerFinish
    \/ \E k \in MemoryKeys : HumanEdit(k, NotesPrint, "bills")

SpecAnalyzer == InitAnalyzer /\ [][NextAnalyzer]_vars

(***************************************************************************)
(* process_downloaded_data.py, the pure parts.                             *)
(***************************************************************************)
\* entry.get(field, ""), for an entry of the memory
EntryGet(entry, field) ==
    IF field \in DOMAIN entry THEN entry[field] ELSE <<>>

\* a directive that does not look at the notes
directive_ignores_notes(entry) == NotesPrint

\* process_memory_entries, line 113: entry.get("notes", "").strip().lower()
directive_of(entry) == Lower(Strip(EntryGet(entry, "notes")))

\* a glob that asks for the suffix as the whole name
glob_without_star(names, suffix) == {f \in names : f = suffix}

\* process_memory_entries, line 121: downloads_dir.glob(f"*{suffix}")
glob_suffix(names, suffix) == {f \in names : EndsWith(f, suffix)}

(***************************************************************************)
(* The directive processor: main, process_memory_entries and process_file, *)
(* step by step.                                                           *)
(***************************************************************************)
InitDirective ==
    /\ dMemory \in DirectiveMemories
    /\ dDownloads \in {F \in SUBSET DirectiveFiles : Cardinality(F) <= MaxDFiles}
    /\ DirectiveStart
    /\ RetrieverQuiet
    /\ AnalyzerQuiet
    /\ SupervisorQuiet

\* what no step of the directive processor changes
DStatic == UNCHANGED <<rvars, avars, svars, dMemory>>

\* main, lines 157-160: nothing in the memory, main returns
DirectiveNoMemory ==
    /\ pcD \in {"idle", "done"}
    /\ dRuns < MaxDRuns
    /\ dMemory = NoDict
    /\ dRuns' = dRuns + 1
    /\ pcD' = "idle"
    /\ DStatic
    /\ UNCHANGED <<dDownloads, dArchive, keysLeft, curKey, matched, stats,
                   dInit, printCalls, printFailed, renameFailed>>

\* main, lines 157-199, and process_memory_entries, lines 102-110
DirectiveBegin ==
    /\ pcD \in {"idle", "done"}
    /\ dRuns < MaxDRuns
    /\ dMemory # NoDict
    /\ dRuns' = dRuns + 1
    /\ stats' = NewStats(dMemory)
    /\ keysLeft' = DOMAIN dMemory
    /\ curKey' = <<>>
    /\ matched' = {}
    /\ dInit' = dDownloads
    /\ printCalls' = NoCalls
    /\ printFailed' = FALSE
    /\ renameFailed' = FALSE
    /\ pcD' = "entries"
    /\ DStatic
    /\ UNCHANGED <<dDownloads, dArchive>>

\* process_memory_entries, lines 112-117: the entry is not marked "print"
SkipEntry(k) ==
    /\ pcD = "entries"
    /\ k \in keysLeft
    /\ directive_of(dMemory[k]) # NotesPrint
    /\ stats' = [stats EXCEPT !.skipped_entries = @ + 1]
    /\ keysLeft' = keysLeft \ {k}
    /\ DStatic
    /\ UNCHANGED <<dDownloads, dArchive, pcD, curKey, matched, dRuns, dInit,
                   printCalls, printFailed, renameFailed>>

\* process_memory_entries, lines 112-126: the entry is marked "print"
MatchEntry(k) ==
    /\ pcD = "entries"
    /\ k \in keysLeft
    /\ directive_of(dMemory[k]) = NotesPrint
    /\ LET suffix == EntryGet(dMemory[k], "filetype")
           found == glob_suffix(dDownloads, suffix)
       IN /\ matched' = found
          /\ stats' = [stats EXCEPT !.to_print_entries = @ + 1,
                                    !.files_found = @ + Cardinality(found)]
          /\ pcD' = IF found = {} THEN "entries" ELSE "files"
    /\ curKey' = k
    /\ keysLeft' = keysLeft \ {k}
    /\ DStatic
    /\ UNCHANGED <<dDownloads, dArchive, dRuns, dInit, printCalls,
                   printFailed, renameFailed>>

\* the for loop of lines 128-129 after one file
AfterFile(f) ==
    /\ matched' = matched \ {f}
    /\ pcD' = IF matched \ {f} = {} THEN "entries" ELSE "files"
    /\ DStatic
    /\ UNCHANGED <<keysLeft, curKey, dRuns, dInit>>

\* process_file, lines 81-89: printed, then moved into the archive
PrintAndArchive(f) ==
    /\ pcD = "files"
    /\ f \in matched
    /\ printCalls' = [printCalls EXCEPT ![f] = @ + 1]
    /\ dDownloads' = dDownloads \ {f}
    /\ dArchive' = dArchive \cup {f}
    /\ stats' = [stats EXCEPT !.files_printed = @ + 1, !.archived = @ + 1]
    /\ AfterFile(f)
    /\ UNCHANGED <<printFailed, renameFailed>>

\* a process_file that archives the file although the print tool failed
PrintFailsButArchives(f) ==
    /\ pcD = "files"
    /\ f \in matched
    /\ printCalls' = [printCalls EXCEPT ![f] = @ + 1]
    /\ printFailed' = TRUE
    /\ dDownloads' = dDownloads \ {f}
    /\ dArchive' = dArchive \cup {f}
    /\ stats' = [stats EXCEPT !.errors = @ + 1]
    /\ AfterFile(f)
    /\ UNCHANGED renameFailed

\* process_file, lines 83 and 90-92: the print tool exits nonzero
PrintFails(f) ==
    /\ pcD = "files"
    /\ f \in matched
    /\ printCalls' = [printCalls EXCEPT ![f] = @ + 1]
    /\ printFailed' = TRUE
    /\ stats' = [stats EXCEPT !.errors = @ + 1]
    /\ AfterFile(f)
    /\ UNCHANGED <<dDownloads, dArchive, renameFailed>>

\* a process_file that does not count the failure of the move as an error
RenameFailsUncounted(f) ==
    /\ pcD = "files"
    /\ f \in matched
    /\ printCalls' = [printCalls EXCEPT ![f] = @ + 1]
    /\ renameFailed' = TRUE
    /\ stats' = [stats EXCEPT !.files_printed = @ + 1]
    /\ AfterFile(f)
    /\ UNCHANGED <<dDownloads, dArchive, printFailed>>

\* process_file, lines 83-87 and 93-95: printed, then rename raises
RenameFails(f) ==
    /\ pcD = "files"
    /\ f \in matched
    /\ printCalls' = [printCalls EXCEPT ![f] = @ + 1]
    /\ renameFailed' = TRUE
    /\ stats' = [stats EXCEPT !.files_printed = @ + 1, !.errors = @ + 1]
    /\ AfterFile(f)
    /\ UNCHANGED <<dDownloads, dArchive, printFailed>>

\* process_memory_entries, line 131, and main, lines 201-202
DirectiveReturn ==
    /\ pcD = "entries"
    /\ keysLeft = {}
    /\ pcD' = "done"
    /\ DStatic
    /\ UNCHANGED <<dDownloads, dArchive, keysLeft, curKey, matched, stats,
                   dRuns, dInit, printCalls, printFailed, renameFailed>>

NextDirective ==
    \/ DirectiveNoMemory
    \/ DirectiveBegin
    \/ \E k \in DirectiveKeys : SkipEntry(k)
    \/ \E k \in DirectiveKeys : MatchEntry(k)
    \/ \E f \in DirectiveFiles : PrintAndArchive(f)
    \/ \E f \in DirectiveFiles : PrintFails(f)
    \/ \E f \in DirectiveFiles : RenameFails(f)
    \/ DirectiveReturn

SpecDirective == InitDirective /\ [][NextDirective]_vars

(***************************************************************************)
(* The watchdog (watchdog.py), the agent processes it starts (main.py,     *)
(* agent.py) and the tool subprocesses of the agents.                      *)
(*                                                                         *)
(* The processes run concurrently: a step of the model is a step of one of *)
(* them.  A time.sleep returns when its interval has passed; the start-up  *)
(* of an agent and a tool subprocess take any time.  The watchdog and the  *)
(* agent are run from the same directory, so that the file main.py writes  *)
(* is the file the watchdog reads.                                         *)
(***************************************************************************)
\* an agent process that exists
Live == {"startup", "run_tool", "sleep"}

\* an agent process whose heartbeat thread runs
Beating == {"run_tool", "sleep"}

\* agent_process.poll() is None
Running(p) == p # 0 /\ agentPc[p] \in Live

\* watchdog.py, lines 56-57: age > MAX_HEARTBEAT_AGE
Stale(ts) == now - ts > MAX_HEARTBEAT_AGE

\* the environment of the watchdog: what a previous session left of the
\* heartbeat file
InitSupervisor ==
    /\ hbFile \in {{}, {StaleTimestamp}, {RecentTimestamp}}
    /\ SupervisorStart
    /\ RetrieverQuiet
    /\ AnalyzerQuiet
    /\ DirectiveQuiet

\* what no step of the processes changes
SStatic == UNCHANGED <<rvars, avars, dvars>>

\* time passes while every process sleeps or waits: no time.sleep is due
Tick ==
    /\ now < MaxTicks * CHECK_INTERVAL
    /\ wdPc = "sleep"
    /\ wdWake > now
    /\ \A p \in Pids : agentPc[p] \in Beating => hbWake[p] > now
    /\ \A p \in Pids : agentPc[p] = "sleep" => loopWake[p] > now
    /\ now' = now + CHECK_INTERVAL
    /\ SStatic
    /\ UNCHANGED <<hbFile, wdPc, wdWake, last_ts, agent_process, started,
                   agentPc, toolIdx, hbWake, loopWake, tools, terminated,
                   lastRc>>

\* subprocess.Popen(AGENT_CMD): the next pid starts main.py
Popen(ap) ==
    [ap EXCEPT ![started + 1] = "startup"]

\* agent_process.terminate() and .wait(): the process ends at once (main.py
\* installs no handler for the signal), its heartbeat thread with it; the
\* child of its subprocess.run is not signalled
Terminate(ap, p) ==
    [ap EXCEPT ![p] = "exited"]

\* run_watchdog, lines 45-46: the heartbeat file is read
WatchdogRead ==
    /\ wdPc = "sleep"
    /\ wdWake <= now
    /\ last_ts' = hbFile
    /\ wdPc' = "checked"
    /\ SStatic
    /\ UNCHANGED <<now, hbFile, wdWake, agent_process, started, agentPc,
                   toolIdx, hbWake, loopWake, tools, terminated,
                   lastRc>>

\* run_watchdog, lines 48-53 and 71: no heartbeat; an agent is started
\* unless the one started before is still running
WatchdogNoHeartbeat ==
    /\ wdPc = "checked"
    /\ last_ts = {}
    /\ IF Running(agent_process)
       THEN UNCHANGED <<agent_process, started, agentPc>>
       ELSE /\ started < MaxAgents
            /\ started' = started + 1
            /\ agent_process' = started + 1
            /\ agentPc' = Popen(agentPc)
    /\ wdPc' = "sleep"
    /\ wdWake' = now + CHECK_INTERVAL
    /\ last_ts' = {}
    /\ SStatic
    /\ UNCHANGED <<now, hbFile, toolIdx, hbWake, loopWake, tools, terminated,
                   lastRc>>

\* the stale branch without terminate and wait
WatchdogStaleKeepsOld ==
    /\ wdPc = "checked"
    /\ \E ts \in last_ts : Stale(ts)
    /\ started < MaxAgents
    /\ started' = started + 1
    /\ agent_process' = started + 1
    /\ agentPc' = Popen(agentPc)
    /\ wdPc' = "sleep"
    /\ wdWake' = now + CHECK_INTERVAL
    /\ last_ts' = {}
    /\ SStatic
    /\ UNCHANGED <<now, hbFile, toolIdx, hbWake, loopWake, tools, terminated,
                   lastRc>>

\* run_watchdog, lines 55-67 and 71: the heartbeat is stale; the agent
\* started before is terminated if it is still running, and a new one is
\* started
WatchdogStale ==
    /\ wdPc = "checked"
    /\ \E ts \in last_ts : Stale(ts)
    /\ started < MaxAgents
    /\ started' = started + 1
    /\ agent_process' = started + 1
    /\ IF Running(agent_process)
       THEN /\ agentPc' = Popen(Terminate(agentPc, agent_process))
            /\ toolIdx' = [toolIdx EXCEPT ![agent_process] = 0]
            /\ hbWake' = [hbWake EXCEPT ![agent_process] = 0]
            /\ loopWake' = [loopWake EXCEPT ![agent_process] = 0]
            /\ terminated' = terminated \cup {agent_process}
       ELSE /\ agentPc' = Popen(agentPc)
            /\ UNCHANGED <<toolIdx, hbWake, loopWake, terminated>>
    /\ wdPc' = "sleep"
    /\ wdWake' = now + CHECK_INTERVAL
    /\ last_ts' = {}
    /\ SStatic
    /\ UNCHANGED <<now, hbFile, tools, lastRc>>

\* run_watchdog, lines 68-71: the heartbeat is not stale
WatchdogFresh ==
    /\ wdPc = "checked"
    /\ \E ts \in last_ts : ~Stale(ts)
    /\ wdPc' = "sleep"
    /\ wdWake' = now + CHECK_INTERVAL
    /\ last_ts' = {}
    /\ SStatic
    /\ UNCHANGED <<now, hbFile, agent_process, started, agentPc, toolIdx,
                   hbWake, loopWake, tools, terminated,
                   lastRc>>

\* main.py, lines 45-46, and startup_checks.py, lines 57-59 and 87-89: a
\* required environment variable is missing, sys.exit(1) ends the process
\* before the heartbeat thread is started
AgentStartupExits(p) ==
    /\ agentPc[p] = "startup"
    /\ agentPc' = [agentPc EXCEPT ![p] = "exited"]
    /\ SStatic
    /\ UNCHANGED <<now, hbFile, wdPc, wdWake, last_ts, agent_process, started,
                   toolIdx, hbWake, loopWake, tools, terminated,
                   lastRc>>

\* main.py, lines 50-55, heartbeat, lines 19-29, and agent.py, lines 41-45:
\* the heartbeat thread is started and writes the file, agent_loop starts
\* its first cycle and run_tool starts the first module
AgentStarts(p) ==
    /\ agentPc[p] = "startup"
    /\ hbFile' = {now}
    /\ hbWake' = [hbWake EXCEPT ![p] = now + HEARTBEAT_INTERVAL]
    /\ agentPc' = [agentPc EXCEPT ![p] = "run_tool"]
    /\ toolIdx' = [toolIdx EXCEPT ![p] = 1]
    /\ tools' = tools \cup {Tool(p, 1)}
    /\ SStatic
    /\ UNCHANGED <<now, wdPc, wdWake, last_ts, agent_process, started,
                   loopWake, terminated,
                   lastRc>>

\* main.py, heartbeat, lines 20-29: the thread's time.sleep returned; it
\* writes the file whatever agent_loop is doing
Heartbeat(p) ==
    /\ agentPc[p] \in Beating
    /\ hbWake[p] <= now
    /\ hbFile' = {now}
    /\ hbWake' = [hbWake EXCEPT ![p] = now + HEARTBEAT_INTERVAL]
    /\ SStatic
    /\ UNCHANGED <<now, wdPc, wdWake, last_ts, agent_process, started,
                   agentPc, toolIdx, loopWake, tools, terminated,
                   lastRc>>

\* what run_tool returns for the exit status of its subprocess (lines 31-35:
\* check=True raises CalledProcessError on a nonzero status)
run_tool(status) == IF status = 0 THEN "True" ELSE "False"

\* an agent_loop that a failed tool ends
ToolExitsFailureFatal(t, status) ==
    /\ t \in tools
    /\ LET p == t.owner
           mine == agentPc[p] = "run_tool" /\ toolIdx[p] = t.module
       IN  IF ~mine
           THEN /\ tools' = tools \ {t}
                /\ UNCHANGED <<agentPc, toolIdx, loopWake, hbWake, lastRc>>
           ELSE IF status # 0
           THEN /\ tools' = tools \ {t}
                /\ toolIdx' = [toolIdx EXCEPT ![p] = 0]
                /\ hbWake' = [hbWake EXCEPT ![p] = 0]
                /\ agentPc' = [agentPc EXCEPT ![p] = "exited"]
                /\ lastRc' = [lastRc EXCEPT ![p] = run_tool(status)]
                /\ UNCHANGED loopWake
           ELSE IF t.module < Len(AGENT_MODULES)
           THEN /\ tools' = (tools \ {t}) \cup {Tool(p, t.module + 1)}
                /\ toolIdx' = [toolIdx EXCEPT ![p] = t.module + 1]
                /\ lastRc' = [lastRc EXCEPT ![p] = run_tool(status)]
                /\ UNCHANGED <<agentPc, loopWake, hbWake>>
           ELSE /\ tools' = tools \ {t}
                /\ toolIdx' = [toolIdx EXCEPT ![p] = 0]
                /\ agentPc' = [agentPc EXCEPT ![p] = "sleep"]
                /\ loopWake' = [loopWake EXCEPT ![p] = now + LOOP_DELAY]
                /\ lastRc' = [lastRc EXCEPT ![p] = run_tool(status)]
                /\ UNCHANGED hbWake
    /\ SStatic
    /\ UNCHANGED <<now, hbFile, wdPc, wdWake, last_ts, agent_process, started,
                   terminated>>

\* agent.py, lines 25-35 and 44-48: a tool subprocess exits with a status.
\* If an agent waits for it in run_tool, run_tool returns True or False,
\* which agent_loop does not look at, and agent_loop starts the next module
\* or, after the last, sleeps; a tool whose agent was terminated just exits
ToolExits(t, status) ==
    /\ t \in tools
    /\ LET p == t.owner
           mine == agentPc[p] = "run_tool" /\ toolIdx[p] = t.module
       IN  IF ~mine
           THEN /\ tools' = tools \ {t}
                /\ UNCHANGED <<agentPc, toolIdx, loopWake, hbWake, lastRc>>
           ELSE IF t.module < Len(AGENT_MODULES)
           THEN /\ tools' = (tools \ {t}) \cup {Tool(p, t.module + 1)}
                /\ toolIdx' = [toolIdx EXCEPT ![p] = t.module + 1]
                /\ lastRc' = [lastRc EXCEPT ![p] = run_tool(status)]
                /\ UNCHANGED <<agentPc, loopWake, hbWake>>
           ELSE /\ tools' = tools \ {t}
                /\ toolIdx' = [toolIdx EXCEPT ![p] = 0]
                /\ agentPc' = [agentPc EXCEPT ![p] = "sleep"]
                /\ loopWake' = [loopWake EXCEPT ![p] = now + LOOP_DELAY]
                /\ lastRc' = [lastRc EXCEPT ![p] = run_tool(status)]
                /\ UNCHANGED hbWake
    /\ SStatic
    /\ UNCHANGED <<now, hbFile, wdPc, wdWake, last_ts, agent_process, started,
                   terminated>>

\* agent.py, lines 41-48: time.sleep(LOOP_DELAY) returned, a new cycle
\* starts with the first module
AgentWakes(p) ==
    /\ agentPc[p] = "sleep"
    /\ loopWake[p] <= now
    /\ agentPc' = [agentPc EXCEPT ![p] = "run_tool"]
    /\ toolIdx' = [toolIdx EXCEPT ![p] = 1]
    /\ loopWake' = [loopWake EXCEPT ![p] = 0]
    /\ tools' = tools \cup {Tool(p, 1)}
    /\ SStatic
    /\ UNCHANGED <<now, hbFile, wdPc, wdWake, last_ts, agent_process, started,
                   hbWake, terminated,
                   lastRc>>

NextSupervisor ==
    \/ Tick
    \/ WatchdogRead
    \/ WatchdogNoHeartbeat
    \/ WatchdogStale
    \/ WatchdogFresh
    \/ \E p \in Pids : AgentStartupExits(p)
    \/ \E p \in Pids : AgentStarts(p)
    \/ \E p \in Pids : Heartbeat(p)
    \/ \E t \in tools, status \in ExitStatuses : ToolExits(t, status)
    \/ \E p \in Pids : AgentWakes(p)

SpecSupervisor == InitSupervisor /\ [][NextSupervisor]_vars

(***************************************************************************)
(* Properties of the retriever.                                            *)
(***************************************************************************)
\* the history as the program holds it: main's dict during a run, the
\* document between runs
PersistedHistory ==
    IF LoadRaises(historyFile) THEN EmptyHistory ELSE load_history(historyFile)

CurHistory == IF pc = "idle" THEN PersistedHistory ELSE history

\* the previous run's download_attachments ran to completion
PrevCompleted == prevExit \in {"ok", "write_raised"}

\* a run of main that loaded the history is in progress or has just ended
InOrAfterRun == exitKind \in {"running", "ok", "raised", "write_raised"}

WritesOfRun(r) == {i \in DOMAIN writes : writes[i][3] = r}

\* the attachment parts of the messages at indexes I
AttachmentData(I) ==
    {mailbox[i].parts[j].data :
        <<i, j>> \in {<<i, j>> \in I \X (1..2) :
                       /\ j <= Len(mailbox[i].parts)
                       /\ IsAttachmentPart(mailbox[i].parts[j])}}

\* C1: idempotence of retrieval.  When download_attachments has run to
\* completion, the history was saved and is reloaded, a further run against
\* the same mailbox downloads nothing: it has no new file, it writes nothing
\* to the download directory, its history stays what was loaded, and the
\* document it saves holds the same two sets.
C1_Idempotence ==
    (runs >= 2 /\ PrevCompleted /\ InOrAfterRun) =>
        /\ new_files = <<>>
        /\ WritesOfRun(runs) = {}
        /\ history = startHist
        /\ pc = "idle" => PersistedHistory = startHist

\* a second complete run after a complete first run that saved attachments,
\* with more messages in the mailbox than one run examines
C1_Witness ==
    /\ pc = "idle"
    /\ runs = 2
    /\ prevExit = "ok"
    /\ exitKind = "ok"
    /\ history.attachments # {}
    /\ Len(mailbox) > MaxExamined

\* C2: dedup correctness.  Over all the runs sharing the history, no two
\* writes to the download directory carry the same bytes, and the history
\* holds exactly one fingerprint for each content written.
C2_DedupCorrect ==
    /\ \A i, j \in DOMAIN writes : writes[i][2] = writes[j][2] => i = j
    /\ CurHistory.attachments =
          {HistoryKey(mailbox[writes[i][4]].id, hash_bytes(writes[i][2])) :
              i \in DOMAIN writes}
    /\ Cardinality(CurHistory.attachments) = Len(writes)

\* two runs are over, and the same bytes came in two processed messages and
\* twice in one processed message, with one write for them
C2_Witness ==
    /\ pc = "idle"
    /\ runs = 2
    /\ \E i, j \in DOMAIN mailbox :
          /\ i # j
          /\ {i, j} \subseteq PersistedHistory.message_ids
          /\ Len(mailbox[i].parts) = 2
          /\ AttachmentData({i}) = {1}
          /\ AttachmentData({j}) = {1}
    /\ Cardinality({i \in DOMAIN writes : writes[i][2] = 1}) = 1

\* C3: history monotonicity.  No step removes a message id or a fingerprint
\* from the history: not a step of a run, and not the save at the end of a
\* run followed by the load of the next one.
C3_HistoryMonotonic ==
    [][/\ CurHistory.message_ids \subseteq CurHistory'.message_ids
       /\ CurHistory.attachments \subseteq CurHistory'.attachments]_vars

\* a message all of whose attachments were duplicates is in the history that
\* a second run loaded and saved again
C3_Witness ==
    /\ pc = "idle"
    /\ runs = 2
    /\ exitKind = "ok"
    /\ \E i \in DOMAIN mailbox :
          /\ i \in PersistedHistory.message_ids
          /\ AttachmentData({i}) # {}
          /\ \A k \in DOMAIN writes : writes[k][4] # i

\* C4: save-on-exit.  When a run of main that loaded the history has ended,
\* normally or by an exception in download_attachments or write_result, the
\* history document holds exactly main's history.
C4_SaveOnExit ==
    (pc = "idle" /\ exitKind \in {"ok", "raised", "write_raised"}) =>
        /\ ~LoadRaises(historyFile)
        /\ load_history(historyFile) = history

\* a run ended by an exception after it had recorded a message and a
\* fingerprint
C4_Witness ==
    /\ pc = "idle"
    /\ exitKind = "raised"
    /\ history.attachments # {}
    /\ history.message_ids # {}
    /\ history # startHist

\* C5: a provider error while fetching one message or one attachment aborts
\* only that item: every other message the run was to examine is processed,
\* and the run reports the attachments it downloaded.
C5_ErrorAbortsOnlyItem ==
    (pc = "idle" /\ failedAt > 0 /\ exitKind \in {"ok", "raised", "write_raised"}) =>
        /\ \A i \in 1..Min(Len(mailbox), MaxExamined) :
              i # failedAt => mailbox[i].id \in history.message_ids
        /\ WritesOfRun(runs) # {} =>
              /\ resultsFile.kind = "object"
              /\ runs \in DOMAIN resultsFile.runs
              /\ \A k \in WritesOfRun(runs) :
                    \E d \in Range(resultsFile.runs[runs].downloads) :
                        d.filename = writes[k][1]

\* C6: load_history returns the empty record for an absent and for a
\* malformed document, and the run goes on.
C6_LoadRecoverable ==
    /\ exitKind # "load_raised"
    /\ (exitKind = "running" /\ historyFile.kind \in {"absent", "malformed"}) =>
          startHist = EmptyHistory

(***************************************************************************)
(* Properties of the analyzer.                                             *)
(***************************************************************************)
\* C7: memory first-write-wins.  A step of process_file that calls
\* update_memory(K, entry) with K present leaves the whole memory unchanged,
\* whatever the entry; with K absent it inserts the entry under K and
\* changes no other entry.
C7_FirstWriteWins ==
    [][(pcA = "run" /\ pcA' = "run" /\ analysis' # analysis) =>
          /\ lastUpd'.called
          /\ IF lastUpd'.key \in DOMAIN memory
             THEN memory' = memory
             ELSE /\ DOMAIN memory' = (DOMAIN memory) \cup {lastUpd'.key}
                  /\ memory'[lastUpd'.key] = lastUpd'.entry
                  /\ \A k \in DOMAIN memory : memory'[k] = memory[k]]_vars

\* update_memory was called for a key that a human had annotated, with an
\* entry that differs from the stored one, and the stored one is still there
C7_Witness ==
    /\ lastUpd.called
    /\ lastUpd.key \in DOMAIN memory
    /\ memory[lastUpd.key] # lastUpd.entry
    /\ memory[lastUpd.key].notes = NotesPrint
    /\ memory[lastUpd.key].summary # lastUpd.entry.summary

\* C8: the notes and the category a human wrote into the memory document
\* are never replaced by the analyzer, also when the edit is made while a
\* run is in progress.
C8_HumanEditsKept ==
    \A k \in DOMAIN humanEdits :
        /\ memFile.kind = "json"
        /\ k \in DOMAIN memFile.data
        /\ memFile.data[k].notes = humanEdits[k].notes
        /\ memFile.data[k].category = humanEdits[k].category

\* C9: the memory is flushed on every exit path.  When main has ended by an
\* exception raised in run(), every key of the memory is in the memory
\* document.
C9_FlushedOnException ==
    (pcA = "idle" /\ aExit = "raised") =>
        \A k \in DOMAIN memory :
            /\ memFile.kind = "json"
            /\ k \in DOMAIN memFile.data

\* the memory key main rebuilds for an unhandled entry (line 349)
KeyOfUnhandled(e) == SenderKey(e.sender, e.filetype)

\* the entry of the memory document under key k is absent or has notes that
\* are empty after trimming
NoNotes(doc, k) ==
    \/ k \notin DOMAIN doc.data
    \/ Strip(doc.data[k].notes) = <<>>

\* C22: what stays in the unhandled document.  In the step in which main
\* completes, the saved unhandled document holds, of the entries loaded or
\* recorded during the run, exactly those whose key SENDER::sender::filetype
\* is absent from the saved memory or has notes empty after trimming, and
\* it holds nothing else.
C22_UnhandledRevisit ==
    [][(pcA = "run" /\ aExit' = "ok") =>
          /\ unhFile'.kind = "json"
          /\ memFile'.kind = "json"
          /\ Range(unhFile'.data) \subseteq Range(unhandled)
          /\ \A e \in Range(unhandled) :
                e \in Range(unhFile'.data) <=> NoNotes(memFile', KeyOfUnhandled(e))]_vars

\* a run completed that had recorded two entries: the one whose key has
\* notes is not in the saved document, the one whose key has notes of white
\* space only is
C22_Witness ==
    /\ pcA = "idle"
    /\ aExit = "ok"
    /\ unhFile.kind = "json"
    /\ memFile.kind = "json"
    /\ aFiles = {FileBTxt, FileDZip}
    /\ PathStem(FileDZip) \in analysis
    /\ \A e \in Range(unhFile.data) : e.filename # FileDZip
    /\ SenderKey("bob", DotZip) \in DOMAIN memFile.data
    /\ memFile.data[SenderKey("bob", DotZip)].notes = NotesPrint
    /\ \E e \in Range(unhFile.data) :
          /\ e.filename = FileBTxt
          /\ KeyOfUnhandled(e) \in DOMAIN memFile.data
          /\ memFile.data[KeyOfUnhandled(e)].notes = NotesBlank

\* the file an unhandled entry is about
FileOfUnhandled(e) ==
    [filename |-> e.filename, filetype |-> e.filetype,
     subject |-> e.subject, sender |-> e.sender]

\* C23: unhandled entries are deduplicated.  Neither the list of a run nor
\* the unhandled document holds two entries with the same filename,
\* filetype, subject and sender.
C23_UnhandledDeduplicated ==
    /\ \A i, j \in DOMAIN unhandled :
          FileOfUnhandled(unhandled[i]) = FileOfUnhandled(unhandled[j]) => i = j
    /\ unhFile.kind = "json" =>
          \A i, j \in DOMAIN unhFile.data :
              FileOfUnhandled(unhFile.data[i]) = FileOfUnhandled(unhFile.data[j])
                  => i = j

(***************************************************************************)
(* Properties of the directive processor.                                  *)
(***************************************************************************)
\* the entries of the memory whose notes normalise to "print"
PrintEntries ==
    {k \in DOMAIN dMemory : directive_of(dMemory[k]) = NotesPrint}

\* the files the download directory held when the run started whose names
\* end with the filetype of entry k
FilesFor(k) ==
    {f \in dInit : EndsWith(f, EntryGet(dMemory[k], "filetype"))}

\* the round trip of entry k: each of its files printed once and moved; and,
\* when no print entry matches a file that is not one of them, the counters
\* count them
RoundTrip(k) ==
    /\ \A f \in FilesFor(k) :
          /\ printCalls[f] = 1
          /\ f \notin dDownloads
          /\ f \in dArchive
    /\ (\A j \in PrintEntries : FilesFor(j) \subseteq FilesFor(k)) =>
          /\ stats.files_found = Cardinality(FilesFor(k))
          /\ stats.files_printed = Cardinality(FilesFor(k))
          /\ stats.archived = Cardinality(FilesFor(k))
          /\ stats.errors = 0

Normalised(k) == Lower(Strip(EntryGet(dMemory[k], "notes")))

\* C11: skip-on-mismatch.  A step that invokes the print tool belongs to an
\* entry whose normalised notes are "print"; a step that takes an entry whose
\* normalised notes differ invokes no print, moves no file and adds exactly
\* one to skipped_entries; and when the run returns skipped_entries counts
\* exactly those entries.
C11_SkipOnMismatch ==
    [][/\ printCalls' # printCalls /\ pcD = "files" =>
             /\ curKey \in DOMAIN dMemory
             /\ Normalised(curKey) = NotesPrint
       /\ \A k \in keysLeft \ keysLeft' :
             Normalised(k) # NotesPrint =>
                 /\ printCalls' = printCalls
                 /\ dDownloads' = dDownloads
                 /\ dArchive' = dArchive
                 /\ matched' = {}
                 /\ pcD' = "entries"
                 /\ stats'.skipped_entries = stats.skipped_entries + 1
       /\ pcD' = "done" =>
             stats'.skipped_entries =
                 Cardinality({k \in DOMAIN dMemory : Normalised(k) # NotesPrint})]_vars

\* a run has returned that skipped an entry with empty notes and an entry
\* with notes "ignore" whose filetype a file of the directory ends with, and
\* nothing was printed or moved
C11_Witness ==
    /\ pcD = "done"
    /\ stats.skipped_entries = 2
    /\ \E k1, k2 \in DOMAIN dMemory :
          /\ dMemory[k1].notes = <<>>
          /\ dMemory[k2].notes = NotesIgnore
          /\ "filetype" \in DOMAIN dMemory[k2]
          /\ \E f \in dDownloads : EndsWith(f, dMemory[k2].filetype)
    /\ dDownloads = dInit
    /\ dArchive = {}
    /\ printCalls = NoCalls

\* the process_file calls of the current run that failed for file f: a file
\* that was moved had one call that succeeded, its last
FailedCalls(f) ==
    printCalls[f] - (IF f \in dInit /\ f \notin dDownloads THEN 1 ELSE 0)

\* the files whose processing failed in the current run
FailedFiles == {f \in DirectiveFiles : FailedCalls(f) > 0}

\* C12: per-file failure isolation.  When the run has returned, whatever
\* failed, every file matched by a print entry was passed to the print tool,
\* every file that left the download directory is in the archive, and the
\* errors counter is the number of files whose processing failed.
C12_FailureIsolation ==
    pcD = "done" =>
        /\ \A k \in PrintEntries : \A f \in FilesFor(k) : printCalls[f] >= 1
        /\ \A f \in dInit \ dDownloads : f \in dArchive
        /\ stats.errors = Cardinality(FailedFiles)

\* C13: archive only after a successful print, and retry.  Every step that
\* passes a file to the print tool either counts it as printed, moves it from
\* the download directory into the archive and records no failure, or
\* records a failure, adds one to errors and leaves both directories as they
\* were; no other step changes a directory; and when a run returns, every
\* file that was in the download directory when it started (a file an
\* earlier run failed on is one) and that a print entry matches has been
\* passed to the print tool in this run.
C13_ArchiveAfterPrint ==
    [][/\ \A f \in DirectiveFiles :
             (pcD = "files" /\ printCalls'[f] # printCalls[f]) =>
                 \/ /\ f \in dDownloads
                    /\ dDownloads' = dDownloads \ {f}
                    /\ dArchive' = dArchive \cup {f}
                    /\ stats'.files_printed = stats.files_printed + 1
                    /\ stats'.errors = stats.errors
                    /\ printFailed' = printFailed
                    /\ renameFailed' = renameFailed
                 \/ /\ dDownloads' = dDownloads
                    /\ dArchive' = dArchive
                    /\ stats'.errors = stats.errors + 1
                    /\ printFailed' \/ renameFailed'
       /\ (dDownloads' # dDownloads \/ dArchive' # dArchive) =>
             /\ pcD = "files"
             /\ \E f \in matched : printCalls'[f] = printCalls[f] + 1
       /\ (pcD = "entries" /\ pcD' = "done") =>
             \A k \in PrintEntries : \A f \in FilesFor(k) : printCalls[f] >= 1]_vars

\* the second run has returned; a file it found in the download directory,
\* left there by the first run whose print entry matched it, was printed once
\* in this run and is in the archive
C13_Witness ==
    /\ pcD = "done"
    /\ dRuns = 2
    /\ \E k \in PrintEntries : \E f \in FilesFor(k) :
          /\ printCalls[f] = 1
          /\ f \in dArchive
          /\ f \notin dDownloads
    /\ stats.errors = 0

\* the sender of the message each file of the download directory came with,
\* as file_analyzer.process_file reads it from the retriever's results
SenderOf(f) == IF f = FileSPdf THEN "bob" ELSE "alice"

\* the key file_analyzer.process_file files f under
OwnKey(f) == SenderKey(SenderOf(f), Lower(PathSuffix(f)))

\* C27: a file is passed to the print tool only under its own entry.  Every
\* file the current run passed to the print tool has, under the key
\* SENDER::<its sender>::<its filetype>, an entry of the memory whose notes
\* normalise to "print".
C27_OwnEntryOnly ==
    \A f \in DirectiveFiles :
        printCalls[f] > 0 =>
            /\ OwnKey(f) \in DOMAIN dMemory
            /\ directive_of(dMemory[OwnKey(f)]) = NotesPrint

\* print_tool.main, line 88: the suffixes main passes on to print_file
PrintableSuffixes == {DotPdf, <<".", "h", "t", "m", "l">>}

\* print_tool.main, lines 83-91: main hands f to print_file; for any other
\* file it logs and goes on, and the script ends with exit status 0
HandedToPrinter(f) == Lower(PathSuffix(f)) \in PrintableSuffixes

\* C28: counted as printed and archived only when handed to the printer.
\* Every file in the archive is one the print tool handed to the printer;
\* a file the print tool skips is never moved there.
C28_PrintedMeansSent ==
    \A f \in dArchive : HandedToPrinter(f)

\* C29: no file is printed twice.  In a run in which no invocation of the
\* print tool has failed, every invocation was a print that succeeded, so no
\* file has been passed to the print tool more than once.
C29_PrintedOnce ==
    ~printFailed => \A f \in DirectiveFiles : printCalls[f] <= 1

\* C30: the counters of a run are consistent.  When process_memory_entries
\* has returned, whatever failed, every entry was counted as to print or as
\* skipped, no more files were archived than printed and no more printed
\* than found, and every file found was counted once, as archived or as an
\* error.
C30_CountersConsistent ==
    pcD = "done" =>
        /\ stats.total_entries = stats.to_print_entries + stats.skipped_entries
        /\ stats.archived <= stats.files_printed
        /\ stats.files_printed <= stats.files_found
        /\ stats.archived + stats.errors = stats.files_found

\* a run has returned that skipped an entry and found two files for another:
\* one was printed and archived, the move of the other failed
C30_Witness ==
    /\ pcD = "done"
    /\ renameFailed
    /\ stats.skipped_entries = 1
    /\ stats.to_print_entries = 1
    /\ stats.files_found = 2
    /\ stats.archived = 1
    /\ stats.errors = 1

(***************************************************************************)
(* Further properties of the retriever.                                    *)
(***************************************************************************)
\* every message of the mailbox is recorded and every attachment content of
\* the mailbox has its fingerprint in the history h
AllRecorded(h) ==
    /\ \A i \in DOMAIN mailbox : mailbox[i].id \in h.message_ids
    /\ \A d \in AttachmentData(DOMAIN mailbox) :
          HistoryKey(0, hash_bytes(d)) \in h.attachments

\* C14: every matching message is eventually examined.  The mailbox and the
\* code being fixed, a run is a function of the history it loads; so the
\* messages are all recorded after some number of runs exactly when a run
\* that completes without recording anything new has nothing left to record.
C14_NoStarvation ==
    (pc = "idle" /\ exitKind = "ok" /\ history = startHist) =>
        AllRecorded(PersistedHistory)

\* C15: a message is marked seen once its parts are processed.  The step
\* that ends the processing of a message puts its id into the history,
\* whatever was saved for it; and no step fetches a message whose processing
\* a run has finished, in the same run or in a later one.
C15_MarkSeen ==
    [][/\ (pc = "parts" /\ pc' = "loop") =>
             mailbox[pos].id \in history'.message_ids
       /\ (pc = "loop" /\ pc' = "parts") =>
             mailbox[pos].id \notin finished]_vars

\* two runs are over; the first finished a message without a part that has
\* both a filename and an attachmentId and a message whose attachments were
\* all duplicates, nothing was written for either, and both are recorded
C15_Witness ==
    /\ pc = "idle"
    /\ runs = 2
    /\ prevExit = "ok"
    /\ exitKind = "ok"
    /\ \E i, j \in DOMAIN mailbox :
          /\ mailbox[i].parts # <<>>
          /\ AttachmentData({i}) = {}
          /\ AttachmentData({j}) # {}
          /\ \A k \in DOMAIN writes : writes[k][4] \notin {i, j}
          /\ {mailbox[i].id, mailbox[j].id} \subseteq finished
          /\ {mailbox[i].id, mailbox[j].id} \subseteq PersistedHistory.message_ids

\* C16: missing credentials are fatal before any provider call.  Every step
\* that ends a run on the FileNotFoundError of authenticate leaves main where
\* no list, get or attachment call can follow (those are the steps of
\* download_attachments, which is never entered), writes nothing to the
\* download directory and leaves the history and results documents as they
\* were.
C16_CredentialsFatal ==
    [][exitKind' = "auth" =>
          /\ pc = "idle" /\ pc' = "idle"
          /\ UNCHANGED <<historyFile, resultsFile, downloads, writes,
                         msgs_examined, page_token, pos, partIdx>>]_vars

\* a run that downloaded and recorded something completed, the next one
\* ended on missing credentials, and the documents of the first are in place
C16_Witness ==
    /\ runs = 2
    /\ prevExit = "ok"
    /\ exitKind = "auth"
    /\ pc = "idle"
    /\ downloads # <<>>
    /\ historyFile.kind = "json"
    /\ historyFile.attachments # <<>>
    /\ resultsFile.kind = "object"

\* C17: collision-safe naming.  Two writes to the same path of the download
\* directory carry the same bytes, whatever the original filenames, and no
\* step changes the content of a file that is already in the directory.
C17_CollisionSafe ==
    [][/\ \A i, j \in DOMAIN writes' :
             writes'[i][1] = writes'[j][1] => writes'[i][2] = writes'[j][2]
       /\ \A p \in DOMAIN downloads :
             p \in DOMAIN downloads' /\ downloads'[p] = downloads[p]]_vars

\* two attachments with the same original filename and different bytes were
\* written, and each is in the download directory with its own content
C17_Witness ==
    \E i, j \in DOMAIN writes :
        /\ writes[i][1][3] = writes[j][1][3]
        /\ writes[i][2] # writes[j][2]
        /\ writes[i][1] # writes[j][1]
        /\ {writes[i][1], writes[j][1]} \subseteq DOMAIN downloads
        /\ downloads[writes[i][1]] = writes[i][2]
        /\ downloads[writes[j][1]] = writes[j][2]

\* C24: write_result loads, merges and overwrites.  A call on a document
\* that holds an object keeps every run entry of it with its value and adds
\* one entry, under a new key, for the current run; a call on a document
\* that is absent, malformed or not an object leaves a document with the
\* current run's entry alone.
C24_LoadMergeOverwrite ==
    [][resultsFile' # resultsFile =>
          LET old == resultsFile.runs
              new == resultsFile'.runs
              added == (DOMAIN new) \ (DOMAIN old)
          IN  /\ resultsFile'.kind = "object"
              /\ Cardinality(added) = 1
              /\ \A ts \in added :
                    new[ts] = [tool |-> "GmailDownloader",
                               new_attachments |-> Len(new_files),
                               downloads |-> new_files]
              /\ IF resultsFile.kind = "object"
                 THEN /\ DOMAIN old \subseteq DOMAIN new
                      /\ \A ts \in DOMAIN old : new[ts] = old[ts]
                 ELSE DOMAIN new = added]_vars

\* three calls were made on a document that held an earlier run: the
\* earlier run and the three new ones are in it
C24_Witness ==
    /\ runs = 3
    /\ resultsFile.kind = "object"
    /\ DOMAIN resultsFile.runs = 0..3
    /\ resultsFile.runs[0] = EarlierResults.runs[0]
    /\ resultsFile.runs[1].new_attachments = 2

\* in the history h, every recorded message has the fingerprints of all its
\* attachment parts recorded
SeenImpliesFingerprints(h) ==
    \A i \in DOMAIN mailbox :
        mailbox[i].id \in h.message_ids =>
            \A j \in DOMAIN mailbox[i].parts :
                IsAttachmentPart(mailbox[i].parts[j]) =>
                    HistoryKey(mailbox[i].id, hash_bytes(mailbox[i].parts[j].data))
                        \in h.attachments

\* C25: a message id is recorded only with its fingerprints.  In main's
\* history at every point of a run, and in the saved history, a message id
\* is present only if the fingerprint of each of its attachment parts is.
C25_SeenOnlyWithFingerprints ==
    /\ SeenImpliesFingerprints(history)
    /\ SeenImpliesFingerprints(PersistedHistory)

\* a run ended by a provider error in the middle: the history it saved
\* holds messages with their fingerprints, and not the message the error hit
C25_Witness ==
    /\ pc = "idle"
    /\ exitKind = "raised"
    /\ failedAt > 1
    /\ AttachmentData({failedAt}) # {}
    /\ mailbox[failedAt].id \notin PersistedHistory.message_ids
    /\ \E i \in DOMAIN mailbox :
          /\ mailbox[i].id \in PersistedHistory.message_ids
          /\ Cardinality(AttachmentData({i})) = 1
          /\ Len(mailbox[i].parts) = 2

\* the results document has a record of the write w made to the download
\* directory, in the entry of the run that made it
HasProvenance(w) ==
    /\ resultsFile.kind = "object"
    /\ w[3] \in DOMAIN resultsFile.runs
    /\ \E d \in Range(resultsFile.runs[w[3]].downloads) :
          /\ d.filename = w[1]
          /\ d.original_name = w[1][3]
          /\ d.subject = Header(mailbox[w[4]], "Subject", "(no subject)")
          /\ d.sender = Header(mailbox[w[4]], "From", "(no sender)")

\* C26: provenance of every downloaded file.  When a run of main has ended,
\* however it ended, every file written to the download directory has its
\* record in the results document.
C26_ProvenanceRecorded ==
    pc = "idle" => \A k \in DOMAIN writes : HasProvenance(writes[k])

(***************************************************************************)
(* Properties of the watchdog, the agent and the tool processes.           *)
(***************************************************************************)
\* the agent processes that exist
LiveAgents == {p \in Pids : agentPc[p] \in Live}

\* C18: one process at a time.  At most one tool subprocess runs, and at
\* most one agent loop, in every reachable state of the watchdog, the agents
\* and their tools.
C18_OneProcess ==
    /\ Cardinality(tools) <= 1
    /\ Cardinality(LiveAgents) <= 1

\* C19: what a check of the watchdog does.  In the step that ends a check:
\* if the timestamp read is older than MAX_HEARTBEAT_AGE, the agent started
\* before no longer runs after the step and a new agent process, which the
\* watchdog now holds, has been started; if no heartbeat was read, a new
\* agent is started exactly when the one started before is not running;
\* otherwise nothing is terminated or started.  No other step terminates
\* or starts an agent.
C19_WatchdogCheck ==
    [][LET old == agent_process
           new == started + 1
           restarted == /\ started' = new
                        /\ agent_process' = new
                        /\ agentPc'[new] = "startup"
                        /\ \A p \in Pids \ {old, new} : agentPc'[p] = agentPc[p]
           untouched == UNCHANGED <<agent_process, started, agentPc>>
       IN  /\ (wdPc = "checked" /\ wdPc' = "sleep") =>
                 IF last_ts = {}
                 THEN IF Running(old)
                      THEN untouched
                      ELSE restarted /\ (old # 0 => agentPc'[old] = agentPc[old])
                 ELSE IF \E ts \in last_ts : now - ts > MAX_HEARTBEAT_AGE
                 THEN /\ restarted
                      /\ old # 0 => agentPc'[old] = "exited"
                      /\ LiveAgents' \cap (terminated' \cup {old}) = {}
                 ELSE untouched
           /\ ~(wdPc = "checked" /\ wdPc' = "sleep") =>
                 /\ UNCHANGED <<agent_process, started, terminated>>
                 /\ \A p \in Pids : agentPc[p] = "none" => agentPc'[p] = "none"]_vars

\* a check read a stale heartbeat while the agent started before was
\* running a tool: that agent was terminated and the next one is starting
C19_Witness ==
    /\ wdPc = "sleep"
    /\ \E p \in terminated :
          /\ agentPc[p] = "exited"
          /\ \E t \in tools : t.owner = p
          /\ agent_process = p + 1
          /\ agentPc[p + 1] = "startup"

\* C20: the heartbeat is written by the loop.  No step in which an agent
\* stays blocked inside the same tool invocation writes that agent's
\* heartbeat.
C20_HeartbeatOfLoop ==
    [][\A p \in Pids :
          (agentPc[p] = "run_tool" /\ agentPc'[p] = "run_tool"
              /\ toolIdx'[p] = toolIdx[p])
          => (hbWake'[p] = hbWake[p] /\ hbFile' = hbFile)]_vars

\* the tool subprocesses of agent p
ToolsOf(p) == {t \in tools : t.owner = p}

\* C21: the order of the tools in a cycle.  An agent that runs waits for
\* one tool at a time, the tool of AGENT_MODULES it has come to; a cycle
\* starts with the first module, when the agent loop starts or its delay has
\* passed; the module after a tool is started in the step in which that
\* tool exits, whatever its exit status; after the last module the loop
\* sleeps for LOOP_DELAY; and no exit of a tool ends the agent.
C21_ToolOrder ==
    [][\A p \in Pids :
          /\ agentPc'[p] = "run_tool" =>
                ToolsOf(p)' = {Tool(p, toolIdx'[p])}
          /\ agentPc'[p] \in {"startup", "sleep"} => ToolsOf(p)' = {}
          /\ (agentPc[p] # "run_tool" /\ agentPc'[p] = "run_tool") =>
                /\ toolIdx'[p] = 1
                /\ agentPc[p] = "sleep" => now >= loopWake[p]
          /\ (agentPc[p] = "run_tool" /\ ToolsOf(p)' # ToolsOf(p)) =>
                /\ lastRc'[p] \in {"True", "False"}
                /\ IF toolIdx[p] < Len(AGENT_MODULES)
                   THEN /\ agentPc'[p] = "run_tool"
                        /\ toolIdx'[p] = toolIdx[p] + 1
                   ELSE /\ agentPc'[p] = "sleep"
                        /\ loopWake'[p] = now + LOOP_DELAY
          /\ (agentPc[p] = "run_tool" /\ agentPc'[p] = "exited") =>
                p \in terminated']_vars

\* the last tool of a cycle exited with a nonzero status, the loop slept for
\* its delay and the agent is in the first tool of its next cycle
C21_Witness ==
    \E p \in Pids :
        /\ agentPc[p] = "run_tool"
        /\ toolIdx[p] = 1
        /\ lastRc[p] = "False"
        /\ now >= LOOP_DELAY
        /\ tools = {Tool(p, 1)}

====
